---- MODULE Spec2Model ----
(***************************************************************************)
(* dremio-mcp-lite: the DremioClient (SQL validation, identifier escaping, *)
(* job submission / polling / result fetch, catalog lookup) and the MCP    *)
(* tool handler that drives it.  Texts are sequences of one-character      *)
(* strings, so that the regular expressions of the source act on           *)
(* characters as they do in JS.  An async function is cut at its awaits:   *)
(* each action runs the code from one await to the next.                   *)
(***************************************************************************)
EXTENDS Integers, Sequences, FiniteSets, TLC

VARIABLES
    pc,             \* where the tool handler is: "idle", awaiting "submit" / "poll" /
                    \* "results" / "catalog", in the 1 s "sleep", or "done"
    tool,           \* request.params.name
    args,           \* request.params.arguments
    op,             \* the client operation the handler awaits
    req,            \* the HTTP request in flight
    sent,           \* HTTP requests issued by this invocation, per endpoint
    maxRows,        \* executeQuery: the maxRows parameter
    limitedMaxRows, \* executeQuery: Math.min(maxRows, 500)
    jobId,          \* executeQuery: response.data.id
    jobState,       \* executeQuery: jobState
    attempts,       \* executeQuery: attempts
    lastPoll,       \* the body of the latest status response (history)
    allInflight,    \* every status poll so far reported an in-flight state (history)
    lastResults,    \* the body of the results response (history)
    lastCatalog,    \* the body of the catalog response (history)
    httpFailure,    \* the request that failed and the error axios threw (history)
    response,       \* what the handler returns
    sqlIn,          \* SQL validation harness: the text handed to isSelectQuery
    sqlOk,          \* its verdict: "pending", then "accepted" / "rejected"
    pathIn,         \* table reference harness: the tablePath argument (a JS value)
    refOut,         \* the SQL the client operation hands to executeQuery, or its error
    calls,          \* concurrent executeQuery calls: the locals of each call
    script,         \* what the backend answers for the job of each call
    env,            \* process.env once dotenv.config() has run
    proc,           \* the server process: "starting", "configured", "serving", "exited"
    exitCode,       \* the code of process.exit, -1 while the process runs
    stderr,         \* the lines written with console.error
    client          \* the configuration dremioClient was constructed with

execVars == <<maxRows, limitedMaxRows, jobId, jobState, attempts>>
histVars == <<lastPoll, allInflight, lastResults, lastCatalog, httpFailure>>
mainVars == <<pc, tool, args, op, req, sent, execVars, histVars, response>>
sqlVars == <<sqlIn, sqlOk>>
refVars == <<pathIn, refOut>>
concVars == <<calls, script>>
bootVars == <<env, proc, exitCode, stderr, client>>
vars == <<mainVars, sqlVars, refVars, concVars, bootVars>>

(***************************************************************************)
(* Texts                                                                   *)
(***************************************************************************)
NL == "\n"

\* The whitespace characters of the modelled alphabet (JS \s and trim()).
WhiteSpace == {" ", NL}

kwSELECT == <<"S", "E", "L", "E", "C", "T">>
kwDROP == <<"D", "R", "O", "P">>

\* String.prototype.toUpperCase on one character of the alphabet.
toUpperChar(c) ==
    CASE c = "s" -> "S" [] c = "e" -> "E" [] c = "l" -> "L"
      [] c = "c" -> "C" [] c = "t" -> "T" [] OTHER -> c

toUpperCase(s) == [i \in 1..Len(s) |-> toUpperChar(s[i])]

\* All sequences over S of length at most n.
SeqsUpTo(S, n) == UNION {[1..k -> S] : k \in 0..n}

RECURSIVE Flatten(_)
Flatten(ss) == IF ss = <<>> THEN <<>> ELSE Head(ss) \o Flatten(Tail(ss))

StartsWith(s, p) == Len(s) >= Len(p) /\ SubSeq(s, 1, Len(p)) = p

\* Least index >= from at which pattern p starts in s, or 0.
IndexOf(s, p, from) ==
    LET J == {j \in from..(Len(s) - Len(p) + 1) : SubSeq(s, j, j + Len(p) - 1) = p}
    IN IF J = {} THEN 0 ELSE CHOOSE j \in J : \A k \in J : j <= k

RECURSIVE trimStart(_)
trimStart(s) ==
    IF s # <<>> /\ Head(s) \in WhiteSpace THEN trimStart(Tail(s)) ELSE s

RECURSIVE trimEnd(_)
trimEnd(s) ==
    IF s # <<>> /\ s[Len(s)] \in WhiteSpace
    THEN trimEnd(SubSeq(s, 1, Len(s) - 1)) ELSE s

\* String.prototype.trim
trim(s) == trimEnd(trimStart(s))

(***************************************************************************)
(* isSelectQuery                                                           *)
(***************************************************************************)
\* cleaned.replace(/--[^\n]*\n/g, '\n'): leftmost matches, left to right; a
\* "--" with no newline after it matches nothing and stays in place.
RECURSIVE removeLineComments(_)
removeLineComments(s) ==
    IF s = <<>> THEN <<>>
    ELSE LET nl == IndexOf(s, <<NL>>, 3)
         IN IF StartsWith(s, <<"-", "-">>) /\ nl # 0
            THEN <<NL>> \o removeLineComments(SubSeq(s, nl + 1, Len(s)))
            ELSE <<Head(s)>> \o removeLineComments(Tail(s))

\* cleaned.replace(/\/\*[\s\S]*?\*\//g, ''): lazy, so up to the first "*/"
\* that starts after the opening "/*".
RECURSIVE removeBlockComments(_)
removeBlockComments(s) ==
    IF s = <<>> THEN <<>>
    ELSE LET close == IndexOf(s, <<"*", "/">>, 3)
         IN IF StartsWith(s, <<"/", "*">>) /\ close # 0
            THEN removeBlockComments(SubSeq(s, close + 2, Len(s)))
            ELSE <<Head(s)>> \o removeBlockComments(Tail(s))

\* /^SELECT\s/i.test(cleaned)
testSelect(cleaned) ==
    /\ Len(cleaned) >= 7
    /\ toUpperCase(SubSeq(cleaned, 1, 6)) = kwSELECT
    /\ cleaned[7] \in WhiteSpace

isSelectQuery(sql) ==
    testSelect(trim(removeBlockComments(removeLineComments(trim(sql)))))

(***************************************************************************)
(* JS values that reach the client as arguments.  t is the typeof-like     *)
(* tag; s the characters of a string; n the number; a the elements of an   *)
(* array.                                                                  *)
(***************************************************************************)
Undefined == [t |-> "undefined", s |-> <<>>, n |-> 0, a |-> <<>>]
Null == [t |-> "null", s |-> <<>>, n |-> 0, a |-> <<>>]
Str(chars) == [t |-> "string", s |-> chars, n |-> 0, a |-> <<>>]
Num(k) == [t |-> "number", s |-> <<>>, n |-> k, a |-> <<>>]
Arr(elems) == [t |-> "array", s |-> <<>>, n |-> 0, a |-> elems]

\* JS truthiness (the !x tests of the source).
Truthy(v) ==
    CASE v.t = "undefined" -> FALSE
      [] v.t = "null" -> FALSE
      [] v.t = "string" -> v.s # <<>>
      [] v.t = "number" -> v.n # 0
      [] OTHER -> TRUE

\* Array.isArray
isArray(v) == v.t = "array"

\* The text Array.prototype.join uses for an element: null and undefined
\* give the empty text, a number its digits (one-digit numbers suffice here).
DigitChar(k) == CASE k = 0 -> "0" [] k = 7 -> "7" [] OTHER -> "9"

ToJoinText(v) ==
    CASE v.t = "string" -> v.s
      [] v.t = "number" -> <<DigitChar(v.n)>>
      [] OTHER -> <<>>

RECURSIVE join(_, _)
join(texts, sep) ==
    IF texts = <<>> THEN <<>>
    ELSE IF Len(texts) = 1 THEN Head(texts)
    ELSE Head(texts) \o sep \o join(Tail(texts), sep)

(***************************************************************************)
(* escapeIdentifier / buildTableReference / the SQL of getTableSchema and  *)
(* previewTable                                                            *)
(***************************************************************************)
DQ == "\""

\* Mutant: embedded double quotes are left as they are.
doubleQuotesKept(identifier) == identifier

\* identifier.replace(/"/g, '""')
RECURSIVE doubleQuotes(_)
doubleQuotes(identifier) ==
    IF identifier = <<>> THEN <<>>
    ELSE (IF Head(identifier) = DQ THEN <<DQ, DQ>> ELSE <<Head(identifier)>>)
         \o doubleQuotes(Tail(identifier))

escapeIdentifier(identifier) == <<DQ>> \o doubleQuotes(identifier) \o <<DQ>>

Returned(text) == [threw |-> FALSE, error |-> "", text |-> text]
Threw(error) == [threw |-> TRUE, error |-> error, text |-> <<>>]

validComponent(component) == Truthy(component) /\ component.t = "string"

buildTableReference(tablePath) ==
    IF ~Truthy(tablePath) \/ (isArray(tablePath) /\ Len(tablePath.a) = 0)
    THEN Threw("Table path cannot be empty")
    ELSE IF ~isArray(tablePath) THEN Threw("tablePath.map is not a function")
    ELSE IF \E i \in 1..Len(tablePath.a) : ~validComponent(tablePath.a[i])
    THEN Threw("Invalid table path component")
    ELSE Returned(join([i \in 1..Len(tablePath.a) |-> escapeIdentifier(tablePath.a[i].s)],
                       <<".">>))

SelectStarFrom == <<"S", "E", "L", "E", "C", "T", " ", "*", " ", "F", "R", "O", "M", " ">>
Limit0 == <<" ", "L", "I", "M", "I", "T", " ", "0">>
Limit10 == <<" ", "L", "I", "M", "I", "T", " ", "1", "0">>

\* getTableSchema up to its executeQuery call: the SQL it submits, or the
\* error buildTableReference throws.
getTableSchemaQuery(tablePath) ==
    LET tableRef == buildTableReference(tablePath)
    IN IF tableRef.threw THEN tableRef
       ELSE Returned(SelectStarFrom \o tableRef.text \o Limit0)

\* previewTable up to its executeQuery call.
previewTableQuery(tablePath) ==
    LET tableRef == buildTableReference(tablePath)
    IN IF tableRef.threw THEN tableRef
       ELSE Returned(SelectStarFrom \o tableRef.text \o Limit10)

\* The older client kept in src/src: the path is joined with "." and put in
\* the SQL as it is; an absent path has no join to call.
legacyGetTableSchemaQuery(tablePath) ==
    IF ~isArray(tablePath) THEN Threw("Cannot read properties of undefined (reading 'join')")
    ELSE
    Returned(SelectStarFrom
             \o join([i \in 1..Len(tablePath.a) |-> ToJoinText(tablePath.a[i])], <<".">>)
             \o Limit0)

legacyPreviewTableQuery(tablePath) ==
    IF ~isArray(tablePath) THEN Threw("Cannot read properties of undefined (reading 'join')")
    ELSE
    Returned(SelectStarFrom
             \o join([i \in 1..Len(tablePath.a) |-> ToJoinText(tablePath.a[i])], <<".">>)
             \o Limit10)

(***************************************************************************)
(* executeQuery: its constants, its errors and the result it builds        *)
(***************************************************************************)
\* const maxAttempts = 30
maxAttempts == 30

\* The Dremio cap of Math.min(maxRows, 500)
DremioRowCap == 500

\* executeQuery(sql, maxRows = 500): the default of the parameter
defaultMaxRows == 500

\* previewTable: this.executeQuery(query, 10)
previewMaxRows == 10

\* The sql_query tool: Math.min(args?.max_rows || 1000, 1000)
toolMaxRows == 1000

Min(a, b) == IF a <= b THEN a ELSE b

\* Mutant: the limit is passed on unclamped.
clampMaxRowsUnclamped(requested) == requested

\* const limitedMaxRows = Math.min(maxRows, 500)
clampMaxRows(requested) == Min(requested, DremioRowCap)

\* The states on which the while loop of executeQuery keeps polling.
InFlight == {"RUNNING", "STARTING", "ENQUEUED"}

\* Mutant: every state that does not end a job keeps the loop polling.
isInFlightUnlessEnded(state) == state \notin {"COMPLETED", "FAILED", "CANCELED"}

\* while (jobState === 'RUNNING' || jobState === 'STARTING' || jobState === 'ENQUEUED')
isInFlight(state) == state \in InFlight

\* Mutant: only FAILED is taken for a failure.
isFailureOnlyFailed(state) == state = "FAILED"

\* if (jobState === 'FAILED' || jobState === 'CANCELED')
isFailure(state) == state \in {"FAILED", "CANCELED"}

\* Mutant: the ceiling is tested with > instead of >=.
ceilingReachedLate(n) == n > maxAttempts

\* if (attempts >= maxAttempts) throw new Error('Query timeout')
ceilingReached(n) == n >= maxAttempts

\* Mutant: the attempt counter is never incremented.
nextAttemptsStuck(n) == n

\* attempts++
nextAttempts(n) == n + 1

\* An Error: kind names the throw site, msg holds the parts of its message;
\* an error thrown by axios for an HTTP error response carries the response.
Err(kind, msg) == [kind |-> kind, msg |-> msg, hasResponse |-> FALSE, status |-> "", data |-> ""]

\* The error axios throws for a failed request.
axiosError(failure) ==
    [kind |-> "transport", msg |-> failure.message, hasResponse |-> failure.hasResponse,
     status |-> failure.status, data |-> failure.data]
NoError == Err("none", <<>>)

timeoutError == Err("timeout", <<"Query timeout">>)

\* x || fallback on a text field of a response ("" stands for an absent field)
OrElse(x, fallback) == IF x = "" THEN fallback ELSE x

\* throw new Error(`Query failed with state: ${jobState}. Error: ${errorMessage}${
\*   queryError ? '. Details: ' + queryError : ''}`)
jobFailedError(body) ==
    Err("jobfailed",
        <<"Query failed with state: ", body.jobState, ". Error: ",
          OrElse(body.errorMessage, "Unknown error")>>
        \o (IF body.queryError # "" THEN <<". Details: ", body.queryError>> ELSE <<>>))

\* throw new Error(`Query failed with state: ${jobState}`)
unexpectedStateError(state) == Err("badstate", <<"Query failed with state: ", state>>)

\* Mutant: executeQuery without its catch.
rethrownBare(error) == error

\* The catch of executeQuery: an error that carries an HTTP response is
\* rethrown with status and body, any other error is rethrown as it is.
rethrown(error) ==
    IF error.hasResponse
    THEN Err("http", <<"Query failed: ">> \o error.msg
                     \o <<". Status: ", error.status, ". Data: ", error.data>>)
    ELSE error

\* An error of a request made outside executeQuery (getCatalog): no catch
\* stands between axios and the caller.
uncaught(error) == error

\* Mutant: the schema is passed on as the backend sent it.
projectSchemaUnreduced(body) == body.schema

\* resultsResponse.data.schema?.map(field => ({name, type})) || []
projectSchema(body) ==
    IF body.hasSchema
    THEN [i \in 1..Len(body.schema) |-> [name |-> body.schema[i].name, type |-> body.schema[i].type]]
    ELSE <<>>

\* The QueryResult executeQuery returns.
buildQueryResult(body) ==
    [rowCount |-> IF body.hasRowCount THEN body.rowCount ELSE 0,
     schema |-> projectSchema(body),
     rows |-> IF body.hasRows THEN body.rows ELSE <<>>]

(***************************************************************************)
(* explainQuery                                                            *)
(***************************************************************************)
ExplainPlanFor ==
    <<"E", "X", "P", "L", "A", "I", "N", " ", "P", "L", "A", "N", " ", "F", "O", "R", " ">>

\* Mutant: explainQuery accepts any SQL.
clientIsSelectQueryAny(sql) == TRUE

\* private isSelectQuery(sql) of the client, the check of explainQuery.
clientIsSelectQuery(sql) == isSelectQuery(sql)

\* Mutant: the rows are put on one line.
explainTextOneLine(rows) == join([i \in 1..Len(rows) |-> join(rows[i], <<" ">>)], <<" ">>)

\* result.rows.map(row => Object.values(row).join(' ')).join('\n')
explainText(rows) == join([i \in 1..Len(rows) |-> join(rows[i], <<" ">>)], <<NL>>)

(***************************************************************************)
(* getCatalog / searchCatalog                                              *)
(***************************************************************************)
CatalogUrl == <<"/", "a", "p", "i", "/", "v", "3", "/", "c", "a", "t", "a", "l", "o", "g">>

\* encodeURIComponent on one character of the alphabet
encodeChar(c) ==
    CASE c = "/" -> <<"%", "2", "F">>
      [] c = " " -> <<"%", "2", "0">>
      [] c = DQ -> <<"%", "2", "2">>
      [] c = "%" -> <<"%", "2", "5">>
      [] OTHER -> <<c>>

encodeURIComponent(s) == Flatten([i \in 1..Len(s) |-> encodeChar(s[i])])

\* path && path.length > 0
hasLength(path) ==
    CASE path.t = "array" -> Len(path.a) > 0
      [] path.t = "string" -> Len(path.s) > 0
      [] OTHER -> FALSE

\* path.map on a value that has a length and is no array
catalogPathError(path) ==
    IF hasLength(path) /\ ~isArray(path) THEN Err("typeerror", <<"path.map is not a function">>)
    ELSE NoError

\* Mutant: the segments are joined first and encoded as one text.
catalogUrlJoinedFirst(path) ==
    IF hasLength(path)
    THEN CatalogUrl \o <<"/">>
         \o encodeURIComponent(join([i \in 1..Len(path.a) |-> path.a[i].s], <<"/">>))
    ELSE CatalogUrl

\* getCatalog: the URL it requests.
catalogUrl(path) ==
    IF hasLength(path)
    THEN CatalogUrl \o <<"/">>
         \o join([i \in 1..Len(path.a) |-> encodeURIComponent(path.a[i].s)], <<"/">>)
    ELSE CatalogUrl

\* String.prototype.toLowerCase on one character of the alphabet
toLowerChar(c) == CASE c = "A" -> "a" [] c = "B" -> "b" [] OTHER -> c

toLowerCase(s) == [i \in 1..Len(s) |-> toLowerChar(s[i])]

\* String.prototype.includes
includes(s, part) == \E i \in 1..(Len(s) - Len(part) + 1) : SubSeq(s, i, i + Len(part) - 1) = part

\* Mutant: the term is looked for in every path segment.
matchesAnySegment(entity, searchTerm) ==
    /\ entity.hasPath
    /\ \E i \in 1..Len(entity.path) :
          includes(toLowerCase(entity.path[i]), toLowerCase(searchTerm))

\* The test of searchRecursive on one entity.
matches(entity, searchTerm) ==
    /\ entity.hasPath /\ Len(entity.path) > 0
    /\ includes(toLowerCase(entity.path[Len(entity.path)]), toLowerCase(searchTerm))

\* searchRecursive over a sequence of entities: each entity, then its children.
RECURSIVE searchEntities(_, _)
searchEntities(entities, searchTerm) ==
    IF entities = <<>> THEN <<>>
    ELSE LET entity == Head(entities)
         IN (IF matches(entity, searchTerm) THEN <<entity>> ELSE <<>>)
            \o (IF entity.hasChildren THEN searchEntities(entity.children, searchTerm) ELSE <<>>)
            \o searchEntities(Tail(entities), searchTerm)

\* The entities searchRecursive is called on, in the order of its calls.
RECURSIVE visited(_)
visited(entities) ==
    IF entities = <<>> THEN <<>>
    ELSE <<Head(entities)>>
         \o (IF Head(entities).hasChildren THEN visited(Head(entities).children) ELSE <<>>)
         \o visited(Tail(entities))

\* searchTerm.toLowerCase() on a search term that is no text: a TypeError at
\* the first visited entity that has a non-empty path.
searchCatalogThrows(body, searchTerm) ==
    /\ searchTerm.t # "string"
    /\ LET seen == visited(IF body.hasData THEN body.data ELSE <<body.entity>>)
       IN \E i \in 1..Len(seen) : seen[i].hasPath /\ Len(seen[i].path) > 0

\* Mutant: the root response is always taken for a bare entity.
searchCatalogResultsBareOnly(body, searchTerm) == searchEntities(<<body.entity>>, searchTerm)

\* const catalogData = rootCatalog.data || [rootCatalog]
searchCatalogResults(body, searchTerm) ==
    searchEntities(IF body.hasData THEN body.data ELSE <<body.entity>>, searchTerm)

(***************************************************************************)
(* Startup: the configuration check and the construction of the client     *)
(***************************************************************************)
\* The values an environment variable may have: unset, empty, or a text.
Environment(url, pat, reject) ==
    [DREMIO_URL |-> url, DREMIO_PAT |-> pat, DREMIO_REJECT_UNAUTHORIZED |-> reject]

Environments ==
    { Environment(url, pat, reject) :
        url \in {Undefined, Str(<<>>), Str(<<"https://dremio">>)},
        pat \in {Undefined, Str(<<>>), Str(<<"token">>)},
        reject \in {Undefined, Str(<<"false">>)} }

NoClient == [constructed |-> FALSE, url |-> <<>>, pat |-> <<>>, rejectUnauthorized |-> TRUE]

ConfigError == "Error: DREMIO_URL and DREMIO_PAT must be set in .env file"
FatalError == "Fatal error:"
Running == "Dremio MCP server running on stdio"

\* Mutant: only the URL is looked at.
missingConfigUrlOnly(e) == ~Truthy(e.DREMIO_URL)

\* if (!DREMIO_URL || !DREMIO_PAT)
missingConfig(e) == ~Truthy(e.DREMIO_URL) \/ ~Truthy(e.DREMIO_PAT)

\* process.env.DREMIO_REJECT_UNAUTHORIZED !== 'false'
rejectUnauthorized(e) == e.DREMIO_REJECT_UNAUTHORIZED # Str(<<"false">>)

\* new DremioClient({ url, pat, rejectUnauthorized })
newDremioClient(e) ==
    [constructed |-> TRUE, url |-> e.DREMIO_URL.s, pat |-> e.DREMIO_PAT.s,
     rejectUnauthorized |-> rejectUnauthorized(e)]

\* The process once main() has connected the transport with a full
\* configuration: the state in which tool requests arrive.
Serving ==
    /\ env = Environment(Str(<<"https://dremio">>), Str(<<"token">>), Undefined)
    /\ proc = "serving"
    /\ exitCode = -1
    /\ stderr = <<Running>>
    /\ client = newDremioClient(env)
(***************************************************************************)
(* The tool handler and the client operations it awaits                    *)
(***************************************************************************)
NoArgs ==
    [path |-> Undefined, table_path |-> Undefined, sql |-> Undefined,
     max_rows |-> Undefined, search_term |-> Undefined]
NoReq == [kind |-> "none", sql |-> <<>>, job |-> "", limit |-> 0, url |-> <<>>]
NoSent == [submit |-> 0, poll |-> 0, results |-> 0, catalog |-> 0]
NoPoll == [jobState |-> "", errorMessage |-> "", queryError |-> ""]
NoResults ==
    [hasRowCount |-> FALSE, rowCount |-> 0, hasSchema |-> FALSE, schema |-> <<>>,
     hasRows |-> FALSE, rows |-> <<>>]
NoCatalog ==
    [hasData |-> FALSE, data |-> <<>>,
     entity |-> [id |-> 0, hasPath |-> FALSE, path |-> <<>>, hasChildren |-> FALSE, children |-> <<>>]]
NoFailure == [at |-> "none", hasResponse |-> FALSE, message |-> <<>>, status |-> "", data |-> ""]
NoResponse == [returned |-> FALSE, isError |-> FALSE, error |-> NoError, text |-> <<>>, value |-> <<>>]
NoRef == [by |-> "none", threw |-> FALSE, error |-> "", text |-> <<>>]

MainIdle ==
    /\ pc = "idle" /\ tool = "" /\ args = NoArgs /\ op = "none"
    /\ req = NoReq /\ sent = NoSent
    /\ maxRows = 0 /\ limitedMaxRows = 0 /\ jobId = "" /\ jobState = "" /\ attempts = 0
    /\ lastPoll = NoPoll /\ allInflight = TRUE /\ lastResults = NoResults
    /\ lastCatalog = NoCatalog /\ httpFailure = NoFailure
    /\ response = NoResponse
SqlIdle == sqlIn = <<>> /\ sqlOk = "pending"
RefIdle == pathIn = Undefined /\ refOut = NoRef
ConcIdle == calls = <<>> /\ script = <<>>

\* The catch of the handler: { content: [{ text: `Error: ${errorMessage}` }], isError: true }
errorResponse(error) ==
    [returned |-> TRUE, isError |-> TRUE, error |-> error,
     text |-> <<"Error: ">> \o error.msg, value |-> <<>>]

\* A successful return: { content: [{ type: 'text', text: ... }] }
okResponse(value) ==
    [returned |-> TRUE, isError |-> FALSE, error |-> NoError, text |-> <<>>, value |-> value]

\* if (!tablePath || !Array.isArray(tablePath)) throw ...
tablePathCheck(tablePath) ==
    IF ~Truthy(tablePath) \/ ~isArray(tablePath)
    THEN Err("args", <<"table_path is required and must be an array">>)
    ELSE NoError

\* Mutant: the sql_query case without its isSelectQuery test.
sqlQueryCheckUnvalidated(sql) ==
    IF ~Truthy(sql) THEN Err("args", <<"sql is required">>)
    ELSE IF sql.t # "string" THEN Err("typeerror", <<"sql.trim is not a function">>)
    ELSE NoError

\* The checks of the sql_query case before executeQuery is called.
sqlQueryCheck(sql) ==
    IF ~Truthy(sql) THEN Err("args", <<"sql is required">>)
    ELSE IF sql.t # "string" THEN Err("typeerror", <<"sql.trim is not a function">>)
    ELSE IF ~isSelectQuery(sql.s) THEN Err("validation", <<"Only SELECT queries are allowed">>)
    ELSE NoError

\* const maxRows = Math.min(args?.max_rows || 1000, 1000)
sqlQueryMaxRows(max_rows) ==
    Min(IF Truthy(max_rows) THEN max_rows.n ELSE toolMaxRows, toolMaxRows)

\* The checks of the explain_query case and of explainQuery before executeQuery.
explainQueryCheck(sql) ==
    IF ~Truthy(sql) THEN Err("args", <<"sql is required">>)
    ELSE IF sql.t # "string" THEN Err("typeerror", <<"sql.trim is not a function">>)
    ELSE IF ~clientIsSelectQuery(sql.s)
         THEN Err("validation", <<"Only SELECT queries can be explained">>)
    ELSE NoError

\* The arguments the model invokes the tools with.
SelectX == kwSELECT \o <<" ", "x">>
DropX == kwDROP \o <<" ", "x">>
CommentedSelect == <<"/", "*", "-", "-", "*", "/", NL>> \o kwDROP \o <<"*", "/">> \o SelectX

SqlArgs == {Undefined, Str(<<>>), Num(7), Str(SelectX), Str(DropX), Str(CommentedSelect)}
MaxRowsArgs == {Undefined} \cup {Num(k) : k \in {-1, 0, 1, 500, 501, 1001}}
TablePathArgs ==
    { Undefined, Str(<<"a">>), Arr(<<>>), Arr(<<Str(<<"a">>)>>),
      Arr(<<Str(<<"a", DQ>>), Str(<<"b">>)>>), Arr(<<Str(<<>>)>>),
      Arr(<<Str(<<"a">>), Num(7)>>) }
CatalogPathArgs ==
    { Undefined, Arr(<<>>), Arr(<<Str(<<"a">>)>>), Arr(<<Str(<<"a">>), Str(<<"b", "/", "c">>)>>),
      Arr(<<Str(<<"/">>), Str(<<"a", " ", "%">>), Str(<<"b">>)>>), Str(<<"a">>), Num(7) }
SearchTermArgs == {Undefined, Str(<<"a">>), Str(<<"A", "b">>), Str(<<"b">>), Num(7)}

\* What the backend may answer.
JobIds == {"job-1", "job-2"}
\* A status body carries errorMessage / queryError (absent: "") for the failure
\* states; "undefined" stands for a body without jobState.
FailureStates == {"FAILED", "CANCELED"}
OtherStates == {"RUNNING", "STARTING", "ENQUEUED", "COMPLETED", "PLANNING", "undefined"}
PollBodies ==
    {[jobState |-> s, errorMessage |-> "", queryError |-> ""] : s \in OtherStates}
    \cup {[jobState |-> s, errorMessage |-> m, queryError |-> q] :
            s \in FailureStates, m \in {"", "boom"}, q \in {"", "detail"}}
ServerError ==
    [hasResponse |-> TRUE, message |-> <<"Request failed with status code ", "500">>,
     status |-> "500", data |-> "{\"errorMessage\":\"oops\"}"]
NotFound ==
    [hasResponse |-> TRUE, message |-> <<"Request failed with status code ", "404">>,
     status |-> "404", data |-> "\"Not Found\""]
NetworkError == [hasResponse |-> FALSE, message |-> <<"Network Error">>, status |-> "", data |-> ""]
HttpFailures == {ServerError, NotFound, NetworkError}

MaxBackendRows == 2
BackendSchema ==
    << [name |-> "c1", type |-> "VARCHAR", nullable |-> "yes"],
       [name |-> "c2", type |-> "INTEGER", nullable |-> "no"] >>
BackendRow(i) == <<(IF i % 2 = 1 THEN <<"a">> ELSE <<"b">>), <<"x", "y">>>>
\* A results body may lack any of rowCount, schema and rows; rowCount is the
\* job's row count, not the length of the page of rows.
\* A page of one row more than previewTable asks for.
OverlongPage ==
    [hasRowCount |-> TRUE, rowCount |-> previewMaxRows + 1,
     hasSchema |-> TRUE, schema |-> BackendSchema,
     hasRows |-> TRUE, rows |-> [i \in 1..(previewMaxRows + 1) |-> BackendRow(i)]]

ResultsBodies ==
    {OverlongPage} \cup
    {[hasRowCount |-> hc, rowCount |-> IF hc THEN n ELSE 0,
      hasSchema |-> hs, schema |-> IF hs THEN BackendSchema ELSE <<>>,
      hasRows |-> hr, rows |-> IF hr THEN [i \in 1..k |-> BackendRow(i)] ELSE <<>>] :
        hc \in BOOLEAN, hs \in BOOLEAN, hr \in BOOLEAN,
        k \in 0..MaxBackendRows, n \in 0..(MaxBackendRows + 1)}

\* Catalog entities: id tells them apart; an entity may lack its path or its
\* child sequence.
Leaf(id, hasPath, path) ==
    [id |-> id, hasPath |-> hasPath, path |-> path, hasChildren |-> FALSE, children |-> <<>>]
Folder(id, hasPath, path, children) ==
    [id |-> id, hasPath |-> hasPath, path |-> path, hasChildren |-> TRUE, children |-> children]
Bare(entity) == [hasData |-> FALSE, data |-> <<>>, entity |-> entity]
Envelope(entities) == [hasData |-> TRUE, data |-> entities, entity |-> NoCatalog.entity]

\* A source "a" holding a folder "a"."b" with the tables "a"."b"."AB" and
\* "a"."b"."b", an entry with an empty path and the table "a"."ba".
SourceTree ==
    Folder(1, TRUE, <<<<"a">>>>, <<
        Folder(2, TRUE, <<<<"a">>, <<"b">>>>, <<
            Leaf(3, TRUE, <<<<"a">>, <<"b">>, <<"A", "B">>>>),
            Leaf(4, TRUE, <<<<"a">>, <<"b">>, <<"b">>>>) >>),
        Leaf(5, TRUE, <<>>),
        Leaf(6, TRUE, <<<<"a">>, <<"b", "a">>>>) >>)

\* A root without a path whose children are a table and a folder without a
\* path that holds a table.
PathlessTree ==
    Folder(1, FALSE, <<>>, <<
        Leaf(2, TRUE, <<<<"a", "b">>>>),
        Folder(3, FALSE, <<>>, <<Leaf(4, TRUE, <<<<"b">>, <<"A">>>>)>>),
        Leaf(5, FALSE, <<>>) >>)

CatalogBodies ==
    { Bare(SourceTree),
      Bare(PathlessTree),
      Bare(Leaf(1, TRUE, <<<<"a">>>>)),
      Envelope(<<>>),
      Envelope(<<Leaf(1, TRUE, <<<<"b">>>>), SourceTree.children[1], Leaf(7, TRUE, <<<<"a", "b">>>>)>>) }

Init ==
    /\ MainIdle
    /\ SqlIdle
    /\ RefIdle
    /\ ConcIdle
    /\ Serving

\* The handler returns the error response: nothing stays in flight.
Throw(error) ==
    /\ pc' = "done"
    /\ req' = NoReq
    /\ response' = errorResponse(error)

\* The handler returns its content.
ReturnValue(value) ==
    /\ pc' = "done"
    /\ req' = NoReq
    /\ response' = okResponse(value)

\* A tool invocation begins: the handler's locals are fresh.
Invoke(name, a) ==
    /\ pc = "idle"
    /\ tool' = name
    /\ args' = a
    /\ UNCHANGED <<histVars, sqlVars, refVars, concVars, bootVars>>

\* executeQuery(sql, maxRows) up to its first await: the job submission.
executeQuery(operation, sqlText, rowsParam) ==
    /\ op' = operation
    /\ maxRows' = rowsParam
    /\ limitedMaxRows' = clampMaxRows(rowsParam)
    /\ req' = [NoReq EXCEPT !.kind = "submit", !.sql = sqlText]
    /\ sent' = [sent EXCEPT !.submit = @ + 1]
    /\ pc' = "submit"
    /\ UNCHANGED <<jobId, jobState, attempts, response>>

\* getCatalog(path) up to its await.
getCatalog(operation, path) ==
    /\ op' = operation
    /\ req' = [NoReq EXCEPT !.kind = "catalog", !.url = catalogUrl(path)]
    /\ sent' = [sent EXCEPT !.catalog = @ + 1]
    /\ pc' = "catalog"
    /\ UNCHANGED <<execVars, response>>

\* An error thrown before any client request.
Reject(error) ==
    /\ Throw(error)
    /\ UNCHANGED <<op, sent, execVars>>

CatalogBrowse ==
    \E path \in CatalogPathArgs :
        /\ Invoke("catalog_browse", [NoArgs EXCEPT !.path = path])
        /\ IF catalogPathError(path) # NoError THEN Reject(catalogPathError(path))
           ELSE getCatalog("getCatalog", path)

SchemaGet ==
    \E tablePath \in TablePathArgs :
        /\ Invoke("schema_get", [NoArgs EXCEPT !.table_path = tablePath])
        /\ IF tablePathCheck(tablePath) # NoError THEN Reject(tablePathCheck(tablePath))
           ELSE LET query == getTableSchemaQuery(tablePath)
                IN IF query.threw THEN Reject(Err("validation", <<query.error>>))
                   ELSE executeQuery("getTableSchema", query.text, defaultMaxRows)

SqlQuery ==
    \E sql \in SqlArgs, max_rows \in MaxRowsArgs :
        /\ Invoke("sql_query", [NoArgs EXCEPT !.sql = sql, !.max_rows = max_rows])
        /\ IF sqlQueryCheck(sql) # NoError THEN Reject(sqlQueryCheck(sql))
           ELSE executeQuery("executeQuery", sql.s, sqlQueryMaxRows(max_rows))

TablePreview ==
    \E tablePath \in TablePathArgs :
        /\ Invoke("table_preview", [NoArgs EXCEPT !.table_path = tablePath])
        /\ IF tablePathCheck(tablePath) # NoError THEN Reject(tablePathCheck(tablePath))
           ELSE LET query == previewTableQuery(tablePath)
                IN IF query.threw THEN Reject(Err("validation", <<query.error>>))
                   ELSE executeQuery("previewTable", query.text, previewMaxRows)

SearchCatalog ==
    \E searchTerm \in SearchTermArgs :
        /\ Invoke("search_catalog", [NoArgs EXCEPT !.search_term = searchTerm])
        /\ IF ~Truthy(searchTerm) THEN Reject(Err("args", <<"search_term is required">>))
           ELSE getCatalog("searchCatalog", Undefined)

ExplainQuery ==
    \E sql \in SqlArgs :
        /\ Invoke("explain_query", [NoArgs EXCEPT !.sql = sql])
        /\ IF explainQueryCheck(sql) # NoError THEN Reject(explainQueryCheck(sql))
           ELSE executeQuery("explainQuery", ExplainPlanFor \o sql.s, defaultMaxRows)

UnknownTool ==
    /\ Invoke("drop_table", NoArgs)
    /\ Reject(Err("unknowntool", <<"Unknown tool: ", "drop_table">>))

\* The head of the polling loop and what follows it, run after jobState and
\* attempts are set to state and n for the job id: wait again, time out,
\* reject an unexpected state, or fetch the results.
AfterPoll(state, n, id) ==
    IF isInFlight(state)
    THEN IF ceilingReached(n)
         THEN Throw(rethrown(timeoutError)) /\ UNCHANGED sent
         ELSE pc' = "sleep" /\ req' = NoReq /\ UNCHANGED <<sent, response>>
    ELSE IF state # "COMPLETED"
    THEN Throw(rethrown(unexpectedStateError(state))) /\ UNCHANGED sent
    ELSE /\ pc' = "results"
         /\ req' = [NoReq EXCEPT !.kind = "results", !.job = id, !.limit = limitedMaxRows]
         /\ sent' = [sent EXCEPT !.results = @ + 1]
         /\ UNCHANGED response

\* The error of a failed request, with the request it answers.
Failed(at, failure) ==
    [at |-> at, hasResponse |-> failure.hasResponse, message |-> failure.message,
     status |-> failure.status, data |-> failure.data]

\* Mutant: the results are fetched as soon as the submission is answered.
SubmitRespondsFetching ==
    \E id \in JobIds :
        /\ pc = "submit"
        /\ jobId' = id
        /\ jobState' = "COMPLETED"
        /\ attempts' = 0
        /\ AfterPoll("COMPLETED", 0, id)
        /\ UNCHANGED <<tool, args, op, maxRows, limitedMaxRows, histVars, sqlVars, refVars, concVars, bootVars>>

\* The job submission is answered: jobState = 'RUNNING', attempts = 0.
SubmitResponds ==
    \E id \in JobIds :
        /\ pc = "submit"
        /\ jobId' = id
        /\ jobState' = "RUNNING"
        /\ attempts' = 0
        /\ AfterPoll("RUNNING", 0, id)
        /\ UNCHANGED <<tool, args, op, maxRows, limitedMaxRows, histVars, sqlVars, refVars, concVars, bootVars>>

SubmitFails ==
    \E failure \in HttpFailures :
        /\ pc = "submit"
        /\ httpFailure' = Failed("submit", failure)
        /\ Throw(rethrown(axiosError(failure)))
        /\ UNCHANGED <<tool, args, op, sent, execVars, lastPoll, allInflight, lastResults,
                       lastCatalog, sqlVars, refVars, concVars, bootVars>>

\* The status polls issued are counted up to one more than the ceiling.
PollLogCap == maxAttempts + 1

\* setTimeout(resolve, 1000) fires: the status request goes out.
TimerFires ==
    /\ pc = "sleep"
    /\ pc' = "poll"
    /\ req' = [NoReq EXCEPT !.kind = "poll", !.job = jobId]
    /\ sent' = [sent EXCEPT !.poll = Min(@ + 1, PollLogCap)]
    /\ UNCHANGED <<tool, args, op, execVars, histVars, response, sqlVars, refVars, concVars, bootVars>>

PollResponds ==
    \E body \in PollBodies :
        /\ pc = "poll"
        /\ jobState' = body.jobState
        /\ lastPoll' = body
        /\ allInflight' = (allInflight /\ isInFlight(body.jobState))
        /\ IF isFailure(body.jobState)
           THEN Throw(rethrown(jobFailedError(body))) /\ UNCHANGED <<attempts, sent>>
           ELSE /\ attempts' = nextAttempts(attempts)
                /\ AfterPoll(body.jobState, nextAttempts(attempts), jobId)
        /\ UNCHANGED <<tool, args, op, maxRows, limitedMaxRows, jobId, lastResults,
                       lastCatalog, httpFailure,
                       sqlVars, refVars, concVars, bootVars>>

\* Mutant: a failed status poll is tried again after the next wait.
PollFailsRetried ==
    \E failure \in HttpFailures :
        /\ pc = "poll"
        /\ allInflight' = FALSE
        /\ httpFailure' = Failed("poll", failure)
        /\ pc' = "sleep"
        /\ req' = NoReq
        /\ UNCHANGED <<tool, args, op, sent, execVars, lastPoll, lastResults, lastCatalog,
                       response, sqlVars, refVars, concVars, bootVars>>

PollFails ==
    \E failure \in HttpFailures :
        /\ pc = "poll"
        /\ allInflight' = FALSE
        /\ httpFailure' = Failed("poll", failure)
        /\ Throw(rethrown(axiosError(failure)))
        /\ UNCHANGED <<tool, args, op, sent, execVars, lastPoll, lastResults, lastCatalog,
                       sqlVars, refVars, concVars, bootVars>>

\* Mutant: every operation hands the QueryResult on whole.
returnedValueWhole(operation, result) == result

\* What the awaiting operation makes of the QueryResult, as the handler returns it.
returnedValue(operation, result) ==
    CASE operation = "getTableSchema" -> result.schema
      [] operation = "explainQuery" -> explainText(result.rows)
      [] OTHER -> result

ResultsResponds ==
    \E body \in ResultsBodies :
        /\ pc = "results"
        /\ lastResults' = body
        /\ ReturnValue(returnedValue(op, buildQueryResult(body)))
        /\ UNCHANGED <<tool, args, op, sent, execVars, lastPoll, allInflight, lastCatalog,
                       httpFailure, sqlVars, refVars, concVars, bootVars>>

ResultsFails ==
    \E failure \in HttpFailures :
        /\ pc = "results"
        /\ httpFailure' = Failed("results", failure)
        /\ Throw(rethrown(axiosError(failure)))
        /\ UNCHANGED <<tool, args, op, sent, execVars, lastPoll, allInflight, lastResults,
                       lastCatalog, sqlVars, refVars, concVars, bootVars>>

\* Mutant: a search that finds folders in the root response asks for the
\* catalog again, below the root.
CatalogRespondsLoadingChildren ==
    \E body \in CatalogBodies :
        /\ pc = "catalog"
        /\ lastCatalog' = body
        /\ IF op = "searchCatalog" /\ sent.catalog = 1
              /\ \E i \in 1..Len(visited(IF body.hasData THEN body.data ELSE <<body.entity>>)) :
                    visited(IF body.hasData THEN body.data ELSE <<body.entity>>)[i].hasChildren
           THEN /\ req' = [NoReq EXCEPT !.kind = "catalog", !.url = CatalogUrl \o <<"/", "a">>]
                /\ sent' = [sent EXCEPT !.catalog = @ + 1]
                /\ UNCHANGED <<pc, response>>
           ELSE /\ UNCHANGED sent
                /\ IF op # "searchCatalog" THEN ReturnValue(body)
                   ELSE IF searchCatalogThrows(body, args.search_term)
                   THEN Throw(Err("typeerror", <<"searchTerm.toLowerCase is not a function">>))
                   ELSE ReturnValue(searchCatalogResults(body, args.search_term.s))
        /\ UNCHANGED <<tool, args, op, execVars, lastPoll, allInflight, lastResults,
                       httpFailure, sqlVars, refVars, concVars, bootVars>>

CatalogResponds ==
    \E body \in CatalogBodies :
        /\ pc = "catalog"
        /\ lastCatalog' = body
        /\ IF op # "searchCatalog" THEN ReturnValue(body)
           ELSE IF searchCatalogThrows(body, args.search_term)
           THEN Throw(Err("typeerror", <<"searchTerm.toLowerCase is not a function">>))
           ELSE ReturnValue(searchCatalogResults(body, args.search_term.s))
        /\ UNCHANGED <<tool, args, op, sent, execVars, lastPoll, allInflight, lastResults,
                       httpFailure, sqlVars, refVars, concVars, bootVars>>

CatalogFails ==
    \E failure \in HttpFailures :
        /\ pc = "catalog"
        /\ httpFailure' = Failed("catalog", failure)
        /\ Throw(uncaught(axiosError(failure)))
        /\ UNCHANGED <<tool, args, op, sent, execVars, lastPoll, allInflight, lastResults,
                       lastCatalog, sqlVars, refVars, concVars, bootVars>>

\* The response is handed to the transport; the handler is ready for the next request.
Return ==
    /\ pc = "done"
    /\ pc' = "idle" /\ tool' = "" /\ args' = NoArgs /\ op' = "none"
    /\ req' = NoReq /\ sent' = NoSent
    /\ maxRows' = 0 /\ limitedMaxRows' = 0 /\ jobId' = "" /\ jobState' = "" /\ attempts' = 0
    /\ lastPoll' = NoPoll /\ allInflight' = TRUE /\ lastResults' = NoResults
    /\ lastCatalog' = NoCatalog /\ httpFailure' = NoFailure
    /\ response' = NoResponse
    /\ UNCHANGED <<sqlVars, refVars, concVars, bootVars>>

BackendAnswers ==
    \/ SubmitResponds
    \/ SubmitFails
    \/ PollResponds
    \/ PollFails
    \/ ResultsResponds
    \/ ResultsFails
    \/ CatalogResponds
    \/ CatalogFails

Next ==
    \/ CatalogBrowse
    \/ SchemaGet
    \/ SqlQuery
    \/ TablePreview
    \/ SearchCatalog
    \/ ExplainQuery
    \/ UnknownTool
    \/ BackendAnswers
    \/ TimerFires
    \/ Return

Spec == Init /\ [][Next]_vars

\* Every HTTP request is eventually answered and every timer eventually fires.
FairSpec == Spec /\ WF_vars(BackendAnswers) /\ WF_vars(TimerFires)

(***************************************************************************)
(* SQL validation harness: isSelectQuery applied to bounded inputs.  An    *)
(* input is a wrapping (comment markers, whitespace, another statement's   *)
(* keyword, in any order) followed by a statement.                         *)
(***************************************************************************)
MaxWrap == 6

WrapChunks ==
    { <<"/", "*">>, <<"*", "/">>, <<"-", "-">>, <<NL>>, kwDROP }

Statements ==
    { kwSELECT \o <<" ", "x">>,
      <<"s", "e", "l", "e", "c", "t", " ", "x">>,
      kwSELECT \o <<"x">>,
      kwSELECT \o <<" ", "-", "-", "x">>,
      kwDROP \o <<" ", "x">>,
      <<>> }

SqlInputs(maxWrap) == {Flatten(w) \o st : w \in SeqsUpTo(WrapChunks, maxWrap), st \in Statements}

InitSql ==
    /\ sqlIn \in SqlInputs(MaxWrap)
    /\ sqlOk = "pending"
    /\ RefIdle
    /\ ConcIdle
    /\ Serving
    /\ MainIdle

Validate ==
    /\ sqlOk = "pending"
    /\ sqlOk' = IF isSelectQuery(sqlIn) THEN "accepted" ELSE "rejected"
    /\ UNCHANGED <<sqlIn, refVars, concVars, bootVars, mainVars>>

NextSql == Validate

SpecSql == InitSql /\ [][NextSql]_vars

(***************************************************************************)
(* Table reference harness: the query-building operations of both clients  *)
(* applied to bounded paths.                                               *)
(***************************************************************************)
MaxPathLen == 2
MaxSegmentLen == 1

SegmentChars == {"a", DQ, "."}

NonTextSegments == {Str(<<>>), Num(7), Null}

\* A segment with a double quote between two letters.
QuoteInside == Str(<<"a", DQ, "b">>)

Segments ==
    {Str(w) : w \in SeqsUpTo(SegmentChars, MaxSegmentLen) \ {<<>>}}
    \cup {QuoteInside} \cup NonTextSegments

\* The paths: arrays of segments, and the absent path.
PathInputs == {Arr(p) : p \in SeqsUpTo(Segments, MaxPathLen)} \cup {Undefined, Null}

By(operation, outcome) ==
    [by |-> operation, threw |-> outcome.threw, error |-> outcome.error, text |-> outcome.text]

InitRef ==
    /\ pathIn \in PathInputs
    /\ refOut = NoRef
    /\ SqlIdle
    /\ ConcIdle
    /\ Serving
    /\ MainIdle

BuildTableReference ==
    /\ refOut = NoRef
    /\ refOut' = By("buildTableReference", buildTableReference(pathIn))
    /\ UNCHANGED <<pathIn, sqlVars, concVars, bootVars, mainVars>>

GetTableSchema ==
    /\ refOut = NoRef
    /\ refOut' = By("getTableSchema", getTableSchemaQuery(pathIn))
    /\ UNCHANGED <<pathIn, sqlVars, concVars, bootVars, mainVars>>

PreviewTable ==
    /\ refOut = NoRef
    /\ refOut' = By("previewTable", previewTableQuery(pathIn))
    /\ UNCHANGED <<pathIn, sqlVars, concVars, bootVars, mainVars>>

LegacyGetTableSchema ==
    /\ refOut = NoRef
    /\ refOut' = By("legacy.getTableSchema", legacyGetTableSchemaQuery(pathIn))
    /\ UNCHANGED <<pathIn, sqlVars, concVars, bootVars, mainVars>>

LegacyPreviewTable ==
    /\ refOut = NoRef
    /\ refOut' = By("legacy.previewTable", legacyPreviewTableQuery(pathIn))
    /\ UNCHANGED <<pathIn, sqlVars, concVars, bootVars, mainVars>>

NextRef ==
    \/ BuildTableReference
    \/ GetTableSchema
    \/ PreviewTable
    \/ LegacyGetTableSchema
    \/ LegacyPreviewTable

SpecRef == InitRef /\ [][NextRef]_vars

(***************************************************************************)
(* The server process from its start: configuration check, client,         *)
(* transport, then the tool handler                                        *)
(***************************************************************************)
InitBoot ==
    /\ env \in Environments
    /\ proc = "starting"
    /\ exitCode = -1
    /\ stderr = <<>>
    /\ client = NoClient
    /\ MainIdle
    /\ SqlIdle
    /\ RefIdle
    /\ ConcIdle

\* The module body up to the construction of the client.
Startup ==
    /\ proc = "starting"
    /\ IF missingConfig(env)
       THEN /\ stderr' = Append(stderr, ConfigError)
            /\ exitCode' = 1
            /\ proc' = "exited"
            /\ UNCHANGED client
       ELSE /\ client' = newDremioClient(env)
            /\ proc' = "configured"
            /\ UNCHANGED <<stderr, exitCode>>
    /\ UNCHANGED <<env, mainVars, sqlVars, refVars, concVars>>

\* main(): the transport is connected and the handlers are served.
Main ==
    /\ proc = "configured"
    /\ proc' = "serving"
    /\ stderr' = Append(stderr, Running)
    /\ UNCHANGED <<env, exitCode, client, mainVars, sqlVars, refVars, concVars>>

\* main().catch: the transport could not be connected.
MainFails ==
    /\ proc = "configured"
    /\ proc' = "exited"
    /\ exitCode' = 1
    /\ stderr' = Append(stderr, FatalError)
    /\ UNCHANGED <<env, client, mainVars, sqlVars, refVars, concVars>>

\* A running process handles tool requests; an exited one runs no code.
Serve ==
    /\ proc = "serving"
    /\ Next

NextBoot ==
    \/ Startup
    \/ Main
    \/ MainFails
    \/ Serve

SpecBoot == InitBoot /\ [][NextBoot]_vars
(***************************************************************************)
(* Concurrent executeQuery calls on one client.  Each call runs the code   *)
(* of executeQuery on its own locals; the calls share the axios instance,  *)
(* which holds no per-request state.  The backend answers each request by  *)
(* the script of the job the request names.                                *)
(***************************************************************************)
MaxCalls == 2

Calls == 1..MaxCalls

\* The job id the backend returns to the submission of call c.
JobOf(c) == c

\* The maxRows argument of call c.
CallMaxRows(c) == IF c % 2 = 1 THEN 1 ELSE toolMaxRows

RunningBody == [jobState |-> "RUNNING", errorMessage |-> "", queryError |-> ""]
StateBody(state) == [jobState |-> state, errorMessage |-> "", queryError |-> ""]
FullResults ==
    [hasRowCount |-> TRUE, rowCount |-> MaxBackendRows, hasSchema |-> TRUE, schema |-> BackendSchema,
     hasRows |-> TRUE, rows |-> [i \in 1..MaxBackendRows |-> BackendRow(i)]]

\* One answer of the backend: a response body or an HTTP failure.
Answer(body) == [fails |-> FALSE, failure |-> NetworkError, body |-> body]
Refusal(failure) == [fails |-> TRUE, failure |-> failure, body |-> NoPoll]

\* The backend's behaviour for one job: whether the submission is accepted,
\* the answers to the status polls in order (RUNNING after the last one),
\* and the answer to the result fetch.
JobScript(submit, polls, resultsFail) ==
    [submit |-> submit, polls |-> polls, resultsFail |-> resultsFail]

Scripts ==
    { JobScript(Answer(NoPoll), <<Answer(StateBody("COMPLETED"))>>, FALSE),
      JobScript(Answer(NoPoll), <<Answer(StateBody("ENQUEUED")), Answer(StateBody("COMPLETED"))>>, TRUE),
      JobScript(Answer(NoPoll),
                <<Answer(RunningBody),
                  Answer([jobState |-> "FAILED", errorMessage |-> "boom", queryError |-> ""])>>, FALSE),
      JobScript(Answer(NoPoll), <<Refusal(ServerError)>>, FALSE),
      JobScript(Answer(NoPoll), <<>>, FALSE),
      JobScript(Refusal(NotFound), <<>>, FALSE) }

\* The answer to the k-th status poll of a job.
pollOutcome(sc, k) == IF k <= Len(sc.polls) THEN sc.polls[k] ELSE Answer(RunningBody)

\* The results body the backend serves for a limit: at most limit rows.
resultsFor(limit) ==
    [FullResults EXCEPT !.rows = SubSeq(FullResults.rows, 1, Min(limit, Len(FullResults.rows)))]

NoValue == buildQueryResult(NoResults)
NoOutcome == [ended |-> FALSE, isError |-> FALSE, error |-> NoError, value |-> NoValue]
Failure(error) == [ended |-> TRUE, isError |-> TRUE, error |-> error, value |-> NoValue]
Success(value) == [ended |-> TRUE, isError |-> FALSE, error |-> NoError, value |-> value]

\* The locals of one call, the request it has in flight (reqJob, reqLimit)
\* and, for the job of this call, the status polls the backend has received.
IdleCall ==
    [pc |-> "idle", limitedMaxRows |-> 0, jobId |-> 0, jobState |-> "", attempts |-> 0,
     reqJob |-> 0, reqLimit |-> 0, received |-> 0, outcome |-> NoOutcome]

\* Mutant: attempts is one counter of the client, shared by all calls.
attemptsCellShared(c) == 1

\* let attempts = 0: the binding belongs to the call that declares it.
attemptsCell(c) == c

Ended(f, c, outcome) == [f EXCEPT ![c].pc = "done", ![c].reqJob = 0, ![c].outcome = outcome]

\* The head of the polling loop and what follows it, for call c in f.
loopHead(f, c) ==
    LET state == f[c].jobState
        n == f[attemptsCell(c)].attempts
    IN IF isInFlight(state)
       THEN IF ceilingReached(n) THEN Ended(f, c, Failure(rethrown(timeoutError)))
            ELSE [f EXCEPT ![c].pc = "sleep", ![c].reqJob = 0]
       ELSE IF state # "COMPLETED"
       THEN Ended(f, c, Failure(rethrown(unexpectedStateError(state))))
       ELSE [f EXCEPT ![c].pc = "results", ![c].reqJob = f[c].jobId,
                      ![c].reqLimit = f[c].limitedMaxRows]

InitConc ==
    /\ calls = [c \in Calls |-> IdleCall]
    /\ script \in [Calls -> Scripts]
    /\ MainIdle
    /\ SqlIdle
    /\ RefIdle
    /\ Serving

\* executeQuery(sql, maxRows) is called: the job submission goes out.
CallStarts(c) ==
    /\ calls[c].pc = "idle"
    /\ calls' = [calls EXCEPT ![c].pc = "submit",
                              ![c].limitedMaxRows = clampMaxRows(CallMaxRows(c))]
    /\ UNCHANGED <<script, mainVars, sqlVars, refVars, bootVars>>

CallSubmitAnswered(c) ==
    /\ calls[c].pc = "submit"
    /\ calls' =
         IF script[JobOf(c)].submit.fails
         THEN Ended(calls, c, Failure(rethrown(axiosError(script[JobOf(c)].submit.failure))))
         ELSE loopHead([[calls EXCEPT ![c].jobId = JobOf(c), ![c].jobState = "RUNNING"]
                          EXCEPT ![attemptsCell(c)].attempts = 0], c)
    /\ UNCHANGED <<script, mainVars, sqlVars, refVars, bootVars>>

\* The timer of call c fires: its status request goes out and reaches the backend.
CallTimerFires(c) ==
    /\ calls[c].pc = "sleep"
    /\ calls' = [[calls EXCEPT ![c].pc = "poll", ![c].reqJob = calls[c].jobId]
                   EXCEPT ![calls[c].jobId].received = @ + 1]
    /\ UNCHANGED <<script, mainVars, sqlVars, refVars, bootVars>>

CallPollAnswered(c) ==
    /\ calls[c].pc = "poll"
    /\ LET job == calls[c].reqJob
           answer == pollOutcome(script[job], calls[job].received)
       IN calls' =
            IF answer.fails THEN Ended(calls, c, Failure(rethrown(axiosError(answer.failure))))
            ELSE IF isFailure(answer.body.jobState)
            THEN Ended([calls EXCEPT ![c].jobState = answer.body.jobState], c,
                       Failure(rethrown(jobFailedError(answer.body))))
            ELSE loopHead([[calls EXCEPT ![c].jobState = answer.body.jobState]
                             EXCEPT ![attemptsCell(c)].attempts = nextAttempts(@)], c)
    /\ UNCHANGED <<script, mainVars, sqlVars, refVars, bootVars>>

CallResultsAnswered(c) ==
    /\ calls[c].pc = "results"
    /\ calls' =
         IF script[calls[c].reqJob].resultsFail
         THEN Ended(calls, c, Failure(rethrown(axiosError(NotFound))))
         ELSE Ended(calls, c, Success(buildQueryResult(resultsFor(calls[c].reqLimit))))
    /\ UNCHANGED <<script, mainVars, sqlVars, refVars, bootVars>>

NextConc ==
    \E c \in Calls :
        \/ CallStarts(c)
        \/ CallSubmitAnswered(c)
        \/ CallTimerFires(c)
        \/ CallPollAnswered(c)
        \/ CallResultsAnswered(c)

SpecConc == InitConc /\ [][NextConc]_vars
(***************************************************************************)
(* Reference reading of a table reference by SQL quoted-identifier rules   *)
(***************************************************************************)
EndsWith(s, p) == Len(s) >= Len(p) /\ SubSeq(s, Len(s) - Len(p) + 1, Len(s)) = p

\* The body of a quoted identifier, read after its opening quote: a doubled
\* quote is one literal quote, a single quote closes the identifier.
RECURSIVE ReadQuotedBody(_, _)
ReadQuotedBody(s, acc) ==
    IF s = <<>> THEN [ok |-> FALSE, seg |-> acc, rest |-> <<>>]
    ELSE IF Head(s) = DQ
         THEN IF Len(s) >= 2 /\ s[2] = DQ
              THEN ReadQuotedBody(SubSeq(s, 3, Len(s)), Append(acc, DQ))
              ELSE [ok |-> TRUE, seg |-> acc, rest |-> Tail(s)]
    ELSE ReadQuotedBody(Tail(s), Append(acc, Head(s)))

\* The identifiers of a text that is nothing but quoted identifiers joined
\* by ".", or ok = FALSE when some character lies outside such an identifier.
RECURSIVE ParseQuotedRef(_, _)
ParseQuotedRef(s, segs) ==
    IF s = <<>> \/ Head(s) # DQ THEN [ok |-> FALSE, segs |-> <<>>]
    ELSE LET r == ReadQuotedBody(Tail(s), <<>>)
         IN IF ~r.ok THEN [ok |-> FALSE, segs |-> <<>>]
            ELSE IF r.rest = <<>> THEN [ok |-> TRUE, segs |-> Append(segs, r.seg)]
            ELSE IF Head(r.rest) = "." THEN ParseQuotedRef(Tail(r.rest), Append(segs, r.seg))
            ELSE [ok |-> FALSE, segs |-> <<>>]

\* The text between "SELECT * FROM " and the LIMIT clause of a query.
TableRefBetween(sql, limit) ==
    IF StartsWith(sql, SelectStarFrom) /\ EndsWith(sql, limit)
       /\ Len(sql) >= Len(SelectStarFrom) + Len(limit)
    THEN SubSeq(sql, Len(SelectStarFrom) + 1, Len(sql) - Len(limit))
    ELSE <<>>

LimitClauseOf(operation) ==
    IF operation \in {"getTableSchema", "legacy.getTableSchema"} THEN Limit0 ELSE Limit10

\* The operations that put a table reference into SQL.
QueryOps ==
    {"getTableSchema", "previewTable", "legacy.getTableSchema", "legacy.previewTable"}

\* A path of non-empty text segments.
IsTextPath(v) ==
    /\ isArray(v) /\ Len(v.a) > 0
    /\ \A i \in 1..Len(v.a) : v.a[i].t = "string" /\ v.a[i].s # <<>>

SegmentTexts(v) == [i \in 1..Len(v.a) |-> v.a[i].s]

\* C4: in every variant of the client, for every path of non-empty text
\* segments, the table reference in the SQL of getTableSchema / previewTable
\* reads back, by quoted-identifier rules, as exactly the original segments,
\* with no segment text outside a quoted identifier.
C4_SegmentsOnlyInsideQuotedIdentifiers ==
    (refOut.by \in QueryOps /\ IsTextPath(pathIn)) =>
        /\ ~refOut.threw
        /\ ParseQuotedRef(TableRefBetween(refOut.text, LimitClauseOf(refOut.by)), <<>>)
             = [ok |-> TRUE, segs |-> SegmentTexts(pathIn)]

\* The same round trip for the client that escapes identifiers.
RefRoundTripEscaped ==
    (refOut.by \in {"getTableSchema", "previewTable"} /\ IsTextPath(pathIn)) =>
        /\ ~refOut.threw
        /\ ParseQuotedRef(TableRefBetween(refOut.text, LimitClauseOf(refOut.by)), <<>>)
             = [ok |-> TRUE, segs |-> SegmentTexts(pathIn)]


\* The quoted form of one segment, character by character.
QuotedForm(seg) ==
    <<DQ>> \o Flatten([i \in 1..Len(seg) |-> IF seg[i] = DQ THEN <<DQ, DQ>> ELSE <<seg[i]>>])
    \o <<DQ>>

\* The quoted forms of the segments, in order, with "." between neighbours.
RECURSIVE DottedQuotedForms(_)
DottedQuotedForms(segs) ==
    IF Len(segs) = 1 THEN QuotedForm(segs[1])
    ELSE DottedQuotedForms(SubSeq(segs, 1, Len(segs) - 1)) \o <<".">> \o QuotedForm(segs[Len(segs)])

\* C11: buildTableReference(path) fails exactly when the path is absent or
\* empty or some segment is empty or not a text; otherwise it returns the
\* segments in order, each in double quotes with every embedded double quote
\* doubled, joined by "." ([s, t] gives "s"."t", a"b gives "a""b").
C11_BuildTableReference ==
    refOut.by = "buildTableReference" =>
        /\ refOut.threw <=> ~IsTextPath(pathIn)
        /\ ~refOut.threw => refOut.text = DottedQuotedForms(SegmentTexts(pathIn))
        /\ pathIn = Arr(<<Str(<<"a">>), Str(<<".">>)>>) =>
              refOut.text = <<DQ, "a", DQ, ".", DQ, ".", DQ>>
        /\ pathIn = Arr(<<QuoteInside>>) => refOut.text = <<DQ, "a", DQ, DQ, "b", DQ>>

C11_Witness ==
    /\ refOut.by = "buildTableReference"
    /\ pathIn = Arr(<<QuoteInside, Str(<<"a">>)>>)
    /\ refOut.text = <<DQ, "a", DQ, DQ, "b", DQ, ".", DQ, "a", DQ>>
(***************************************************************************)
(* Reference readings of SQL text used by the properties of isSelectQuery  *)
(***************************************************************************)
Letters == {"S", "E", "L", "C", "T", "s", "e", "l", "c", "t", "D", "R", "O", "P", "x"}

\* Standard SQL comment lexing: the text left once leading whitespace, line
\* comments (to the end of the line or of the text) and block comments are
\* skipped in one left-to-right pass, so a marker inside a comment of the
\* other kind opens nothing.  An unterminated block comment leaves no text.
RECURSIVE SkipCommentsAndSpace(_)
SkipCommentsAndSpace(s) ==
    IF s = <<>> THEN <<>>
    ELSE IF Head(s) \in WhiteSpace THEN SkipCommentsAndSpace(Tail(s))
    ELSE IF StartsWith(s, <<"-", "-">>)
         THEN LET nl == IndexOf(s, <<NL>>, 3)
              IN IF nl = 0 THEN <<>> ELSE SkipCommentsAndSpace(SubSeq(s, nl + 1, Len(s)))
    ELSE IF StartsWith(s, <<"/", "*">>)
         THEN LET close == IndexOf(s, <<"*", "/">>, 3)
              IN IF close = 0 THEN <<>> ELSE SkipCommentsAndSpace(SubSeq(s, close + 2, Len(s)))
    ELSE s

RECURSIVE LeadingWord(_)
LeadingWord(s) ==
    IF s # <<>> /\ Head(s) \in Letters THEN <<Head(s)>> \o LeadingWord(Tail(s)) ELSE <<>>

\* The first token outside comments and whitespace, in upper case.
FirstToken(s) == toUpperCase(LeadingWord(SkipCommentsAndSpace(s)))

OtherKeywords == {kwDROP}

\* Every "--" comment removed up to the end of its line, also on a last line
\* that no newline ends.
RECURSIVE stripLineCommentsToEol(_)
stripLineCommentsToEol(s) ==
    IF s = <<>> THEN <<>>
    ELSE IF StartsWith(s, <<"-", "-">>)
         THEN LET nl == IndexOf(s, <<NL>>, 3)
              IN IF nl = 0 THEN <<>> ELSE <<NL>> \o stripLineCommentsToEol(SubSeq(s, nl + 1, Len(s)))
    ELSE <<Head(s)>> \o stripLineCommentsToEol(Tail(s))

StrippedBeginsWithSelect(s) ==
    testSelect(trim(removeBlockComments(stripLineCommentsToEol(s))))

\* C2: isSelectQuery never accepts a text whose first token outside comments
\* and whitespace, under standard SQL comment lexing, is a keyword other
\* than SELECT.
C2_NoCommentBypass ==
    sqlOk = "accepted" => FirstToken(sqlIn) \notin OtherKeywords

\* C3: isSelectQuery(s) is true if and only if s with every "--" to
\* end-of-line comment (terminated by a newline or not) and every block
\* comment removed, then trimmed, begins with SELECT and a whitespace.
C3_AcceptsIffStrippedSelect ==
    sqlOk # "pending" => ((sqlOk = "accepted") <=> StrippedBeginsWithSelect(sqlIn))


\* The text begins with the keyword SELECT, in any case, and a whitespace.
BeginsSelectStatement(s) ==
    /\ Len(s) >= 7
    /\ \A i \in 1..6 : s[i] \in {kwSELECT[i], <<"s", "e", "l", "e", "c", "t">>[i]}
    /\ s[7] \in {" ", "\n"}

\* A SELECT statement behind whitespace, newline-terminated line comments
\* and block comments, each comment read in one left-to-right pass.
IsSelectBehindComments(s) == BeginsSelectStatement(SkipCommentsAndSpace(s))

\* C24: every SELECT statement preceded by any sequence of whitespace,
\* newline-terminated "--" comments and block comments is accepted by
\* isSelectQuery, whatever the comments hold ("--" in a block comment, "/*"
\* in a line comment) and whatever follows the SELECT keyword.
C24_CommentedSelectAccepted ==
    (sqlOk # "pending" /\ IsSelectBehindComments(sqlIn)) => sqlOk = "accepted"
(***************************************************************************)
(* Properties of the tool handler and of executeQuery                      *)
(***************************************************************************)
\* A query "SELECT * FROM <ref> LIMIT n" whose <ref> is a text that
\* buildTableReference builds from a path of non-empty text segments.
IsTableSelect(sql, limit) ==
    LET ref == TableRefBetween(sql, limit)
        parsed == ParseQuotedRef(ref, <<>>)
        path == Arr([i \in 1..Len(parsed.segs) |-> Str(parsed.segs[i])])
    IN /\ parsed.ok
       /\ ~buildTableReference(path).threw
       /\ buildTableReference(path).text = ref

\* C1: every SQL text that reaches the job-submission endpoint is a text
\* accepted by isSelectQuery, or "EXPLAIN PLAN FOR " followed by such a text,
\* or "SELECT * FROM <table reference> LIMIT 0" / "LIMIT 10" with the
\* reference built by buildTableReference.
C1_OnlyValidatedSqlSubmitted ==
    req.kind = "submit" =>
        \/ isSelectQuery(req.sql)
        \/ /\ StartsWith(req.sql, ExplainPlanFor)
           /\ isSelectQuery(SubSeq(req.sql, Len(ExplainPlanFor) + 1, Len(req.sql)))
        \/ IsTableSelect(req.sql, Limit0)
        \/ IsTableSelect(req.sql, Limit10)

C1_Witness ==
    /\ req.kind = "submit"
    /\ tool = "explain_query"
    /\ req.sql = ExplainPlanFor \o SelectX

\* C5: executeQuery fails with "Query timeout" exactly when the first 30
\* status polls all reported an in-flight state; at most 30 polls are issued
\* per call; a job reported COMPLETED on a poll up to the 30th has its
\* results fetched and ends with a result (or the error of that fetch),
\* never with a timeout.
C5_TimeoutIffThirtyInflightPolls ==
    /\ sent.poll <= 30
    /\ (pc = "done" /\ sent.submit = 1) =>
          ((response.error.kind = "timeout") <=> (sent.poll = 30 /\ allInflight))
    /\ lastPoll.jobState = "COMPLETED" =>
          /\ pc \in {"results", "done"}
          /\ sent.results = 1
          /\ pc = "done" => (~response.isError \/ response.error.kind \in {"http", "transport"})

C5_Witness ==
    /\ pc = "done"
    /\ response.error = timeoutError
    /\ sent.poll = 30

InMessage(part) == \E i \in 1..Len(response.text) : response.text[i] = part

\* C6: when a status poll reports FAILED or CANCELED, executeQuery fails at
\* once; the message holds that state, the backend's errorMessage and, when
\* present, its queryError; no further poll and no result fetch is issued.
C6_JobFailureSurfaced ==
    lastPoll.jobState \in {"FAILED", "CANCELED"} =>
        /\ pc = "done"
        /\ req = NoReq
        /\ sent.results = 0
        /\ response.isError
        /\ InMessage(lastPoll.jobState)
        /\ lastPoll.errorMessage # "" => InMessage(lastPoll.errorMessage)
        /\ lastPoll.queryError # "" => InMessage(lastPoll.queryError)

C6_Witness ==
    /\ pc = "done"
    /\ lastPoll = [jobState |-> "CANCELED", errorMessage |-> "boom", queryError |-> "detail"]
    /\ sent.poll = 2

\* C7: if every HTTP request is eventually answered (and every timer fires),
\* every executeQuery call eventually ends, with a result or an error,
\* whatever job states the backend reports.
C7_ExecuteQueryTerminates ==
    (pc \in {"submit", "sleep", "poll", "results"}) ~> (pc = "done")

C7_Witness ==
    /\ pc = "done"
    /\ attempts = 30
    /\ jobState \in {"RUNNING", "STARTING", "ENQUEUED"}
    /\ response.returned

C9_RowsWithinClamp ==
    (pc = "done" /\ ~response.isError /\ sent.results = 1) =>
        Len(buildQueryResult(lastResults).rows) <= (IF maxRows <= 500 THEN maxRows ELSE 500)

\* The inputs that have to fail validation.
IsText(v) == v.t = "string" /\ v.s # <<>>

InvalidTablePath(v) ==
    isArray(v) /\ (Len(v.a) = 0 \/ \E i \in 1..Len(v.a) : ~IsText(v.a[i]))

MustFailValidation ==
    \/ tool \in {"schema_get", "table_preview"} /\ InvalidTablePath(args.table_path)
    \/ tool \in {"sql_query", "explain_query"} /\ IsText(args.sql) /\ ~isSelectQuery(args.sql.s)

\* C10: a call that has to fail validation (a table path that is empty or
\* has an empty or non-text segment; SQL that isSelectQuery rejects, for
\* explain_query and sql_query) ends with an error and no HTTP request.
C10_ValidationBeforeNetwork ==
    (pc # "idle" /\ MustFailValidation) =>
        /\ pc = "done"
        /\ response.isError
        /\ response.error.kind = "validation"
        /\ sent = NoSent
        /\ req = NoReq

C10_Witness ==
    /\ pc = "done"
    /\ tool = "explain_query"
    /\ args.sql = Str(DropX)
    /\ response.error = Err("validation", <<"Only SELECT queries can be explained">>)
    /\ sent = NoSent


\* The QueryResult of a call that fetched its results and returned, where the
\* handler returns it whole.
ReturnedResult ==
    pc = "done" /\ ~response.isError /\ sent.results = 1 /\ op \in {"executeQuery", "previewTable"}

\* C15: for a COMPLETED job the QueryResult has the rowCount, schema and rows
\* of the backend's results response, the schema reduced to name and type
\* per column in the backend's order; a rowCount, schema or rows that the
\* response lacks is 0, the empty sequence and the empty sequence.
C15_ResultAsReported ==
    /\ ReturnedResult =>
          /\ jobState = "COMPLETED"
          /\ DOMAIN response.value = {"rowCount", "schema", "rows"}
          /\ response.value.rowCount = (IF lastResults.hasRowCount THEN lastResults.rowCount ELSE 0)
          /\ response.value.rows = (IF lastResults.hasRows THEN lastResults.rows ELSE <<>>)
          /\ Len(response.value.schema) = (IF lastResults.hasSchema THEN Len(lastResults.schema) ELSE 0)
          /\ \A i \in 1..Len(response.value.schema) :
                /\ DOMAIN response.value.schema[i] = {"name", "type"}
                /\ response.value.schema[i].name = lastResults.schema[i].name
                /\ response.value.schema[i].type = lastResults.schema[i].type
    /\ (pc = "done" /\ ~response.isError /\ sent.results = 1 /\ op = "getTableSchema") =>
          /\ Len(response.value) = (IF lastResults.hasSchema THEN Len(lastResults.schema) ELSE 0)
          /\ \A i \in 1..Len(response.value) :
                response.value[i] = [name |-> lastResults.schema[i].name,
                                     type |-> lastResults.schema[i].type]

C15_Witness ==
    /\ ReturnedResult
    /\ lastResults.hasSchema /\ ~lastResults.hasRows /\ ~lastResults.hasRowCount
    /\ response.value = [rowCount |-> 0, rows |-> <<>>,
                         schema |-> << [name |-> "c1", type |-> "VARCHAR"],
                                       [name |-> "c2", type |-> "INTEGER"] >>]

ToolNames ==
    {"catalog_browse", "schema_get", "sql_query", "table_preview", "search_catalog", "explain_query"}

\* A required parameter is missing or is not of the type its tool declares.
MissingOrWrongRequired ==
    \/ tool \in {"schema_get", "table_preview"} /\ ~isArray(args.table_path)
    \/ tool \in {"sql_query", "explain_query"} /\ ~IsText(args.sql)
    \/ tool = "search_catalog" /\ ~IsText(args.search_term)

\* The client operation failed: validation, HTTP error, job failure, timeout,
\* or a job state that is neither in flight nor COMPLETED.
ClientFailed ==
    \/ MustFailValidation
    \/ httpFailure.at # "none"
    \/ lastPoll.jobState \in {"FAILED", "CANCELED"}
    \/ lastPoll.jobState \notin {"", "RUNNING", "STARTING", "ENQUEUED", "COMPLETED"}
    \/ sent.poll = 30 /\ allInflight /\ lastPoll.jobState \in {"RUNNING", "STARTING", "ENQUEUED"}

\* An optional parameter of a type the client cannot use.
UnusableOptional == tool = "catalog_browse" /\ args.path.t = "string" /\ args.path.s # <<>>

InvocationFailed ==
    \/ tool \notin ToolNames
    \/ MissingOrWrongRequired
    \/ UnusableOptional
    \/ ClientFailed

\* C16: every tool invocation ends with a response: for an unknown tool
\* name, a missing or wrongly typed required parameter and any client
\* failure the response has isError set and the text "Error: <message>";
\* a successful invocation has a response without isError.
C16_EveryFailureIsAnErrorResponse ==
    pc = "done" =>
        /\ response.returned
        /\ InvocationFailed =>
              /\ response.isError
              /\ response.error.msg # <<>>
              /\ response.text = <<"Error: ">> \o response.error.msg
        /\ ~InvocationFailed => (~response.isError /\ response.text = <<>>)

\* C17: an HTTP error response to the job submission, a status poll or the
\* result fetch is rethrown with a message that holds the original message,
\* the status code and the serialized body; a timeout, a job failure and an
\* unexpected job state reach the caller as they were thrown, not wrapped.
C17_HttpErrorsRethrownWithContext ==
    /\ (httpFailure.at \in {"submit", "poll", "results"} /\ httpFailure.hasResponse) =>
          /\ pc = "done"
          /\ response.isError
          /\ \A i \in 1..Len(httpFailure.message) : InMessage(httpFailure.message[i])
          /\ InMessage(httpFailure.status)
          /\ InMessage(httpFailure.data)
    /\ (pc = "done" /\ sent.submit = 1 /\ response.isError /\ httpFailure.at = "none") =>
          /\ response.error \in {timeoutError, jobFailedError(lastPoll), unexpectedStateError(jobState)}
          /\ ~InMessage("Query failed: ")
          /\ ~InMessage(". Status: ")

C17_Witness ==
    /\ pc = "done"
    /\ httpFailure.at = "poll"
    /\ sent.poll = 2
    /\ response.text = <<"Error: ", "Query failed: ", "Request failed with status code ", "404",
                         ". Status: ", "404", ". Data: ", "\"Not Found\"">>

\* C18: an HTTP error response to the catalog request of getCatalog or
\* searchCatalog reaches the caller with the status code and the response
\* body as context, as for query execution, and the message the
\* catalog_browse and search_catalog tools return holds that context.
C18_CatalogErrorsCarryContext ==
    (httpFailure.at = "catalog" /\ httpFailure.hasResponse) =>
        /\ pc = "done"
        /\ response.isError
        /\ InMessage(httpFailure.status)
        /\ InMessage(httpFailure.data)
        /\ InMessage(". Status: ")
        /\ InMessage(". Data: ")

\* C19: an HTTP error on any request ends the operation with that error and
\* nothing in flight; the job submission, the result fetch and the catalog
\* request are issued at most once per call; after a timeout or a job
\* failure nothing is in flight; no request other than submission, status
\* poll, result fetch and catalog lookup exists (none cancels a job).
C19_NoRetryNoCancel ==
    /\ sent.submit <= 1 /\ sent.results <= 1 /\ sent.catalog <= 1
    /\ req.kind \in {"none", "submit", "poll", "results", "catalog"}
    /\ httpFailure.at # "none" =>
          /\ pc = "done"
          /\ req = NoReq
          /\ response.isError
          /\ \A i \in 1..Len(httpFailure.message) : InMessage(httpFailure.message[i])
    /\ (response.error.kind \in {"timeout", "jobfailed"}
        \/ lastPoll.jobState \in {"FAILED", "CANCELED"}) =>
          /\ pc = "done"
          /\ req = NoReq
          /\ sent.results = 0

C19_Witness ==
    /\ pc = "done"
    /\ httpFailure.at = "results"
    /\ sent = [submit |-> 1, poll |-> 3, results |-> 1, catalog |-> 0]
    /\ req = NoReq
(***************************************************************************)
(* Properties of getCatalog and searchCatalog                              *)
(***************************************************************************)
\* The texts between the "/" of a URL path, in order.
RECURSIVE SplitOnSlash(_, _)
SplitOnSlash(s, cur) ==
    IF s = <<>> THEN <<cur>>
    ELSE IF Head(s) = "/" THEN <<cur>> \o SplitOnSlash(Tail(s), <<>>)
    ELSE SplitOnSlash(Tail(s), Append(cur, Head(s)))

\* The character a percent escape stands for.
Unescaped(hi, lo) ==
    CASE hi = "2" /\ lo = "F" -> "/"
      [] hi = "2" /\ lo = "0" -> " "
      [] hi = "2" /\ lo = "2" -> DQ
      [] hi = "2" /\ lo = "5" -> "%"
      [] OTHER -> "?"

\* Percent-decoding, as the receiver of the URL does it on one path segment.
RECURSIVE percentDecode(_)
percentDecode(s) ==
    IF s = <<>> THEN <<>>
    ELSE IF Head(s) = "%" /\ Len(s) >= 3
         THEN <<Unescaped(s[2], s[3])>> \o percentDecode(SubSeq(s, 4, Len(s)))
    ELSE <<Head(s)>> \o percentDecode(Tail(s))

AbsentOrEmpty(path) == path \in {Undefined, Null} \/ (isArray(path) /\ Len(path.a) = 0)

\* C12: getCatalog requests the root catalog URL when the path is absent or
\* empty; for a path of n segments it requests the catalog URL followed by
\* "/" and n parts separated by exactly n-1 unencoded "/", part i being
\* segment i percent-encoded (it decodes to segment i and holds no "/");
\* the backend's response body is returned unchanged.
C12_CatalogUrlPerSegment ==
    /\ (op = "getCatalog" /\ req.kind = "catalog") =>
          IF AbsentOrEmpty(args.path) THEN req.url = CatalogUrl
          ELSE isArray(args.path) =>
                 /\ StartsWith(req.url, CatalogUrl \o <<"/">>)
                 /\ LET parts == SplitOnSlash(SubSeq(req.url, Len(CatalogUrl) + 2, Len(req.url)), <<>>)
                    IN /\ Len(parts) = Len(args.path.a)
                       /\ \A i \in 1..Len(parts) : percentDecode(parts[i]) = args.path.a[i].s
    /\ (op = "getCatalog" /\ lastCatalog # NoCatalog) =>
          /\ pc = "done"
          /\ ~response.isError
          /\ response.value = lastCatalog

C12_Witness ==
    /\ op = "getCatalog"
    /\ req.kind = "catalog"
    /\ args.path = Arr(<<Str(<<"a">>), Str(<<"b", "/", "c">>)>>)
    /\ req.url = CatalogUrl \o <<"/", "a", "/", "b", "%", "2", "F", "c">>

\* Two characters that are the same letter, whatever their case.
SameLetter(c, d) == c = d \/ {c, d} \in {{"a", "A"}, {"b", "B"}}

\* term occurs in name as a substring, case ignored.
ContainsIgnoringCase(name, term) ==
    \E start \in 0..(Len(name) - Len(term)) :
        \A j \in 1..Len(term) : SameLetter(name[start + j], term[j])

HasNoPath(entity) == ~entity.hasPath \/ entity.path = <<>>

TermInLastSegment(entity, term) ==
    ~HasNoPath(entity) /\ ContainsIgnoringCase(entity.path[Len(entity.path)], term)

\* An entity and its descendants in depth-first pre-order.
RECURSIVE Preorder(_)
Preorder(entity) ==
    <<entity>> \o Flatten([i \in 1..Len(entity.children) |-> Preorder(entity.children[i])])

\* The entities of a root response: of a bare entity, or of the entities of an envelope.
TreeEntities(body) ==
    IF body.hasData THEN Flatten([i \in 1..Len(body.data) |-> Preorder(body.data[i])])
    ELSE Preorder(body.entity)

Ids(entities) == [i \in 1..Len(entities) |-> entities[i].id]

\* A search by a text term has been answered by the backend.
Searched == op = "searchCatalog" /\ lastCatalog # NoCatalog /\ args.search_term.t = "string"

\* C13: searchCatalog(term) returns exactly the entities of the fetched tree
\* whose last path segment contains term as a case-insensitive substring,
\* each once, in depth-first pre-order; an entity that has the term only in
\* a non-last segment is not returned.
C13_SearchReturnsMatchesInPreorder ==
    Searched =>
        LET term == args.search_term.s
            InLast(entity) == TermInLastSegment(entity, term)
            all == TreeEntities(lastCatalog)
        IN /\ pc = "done"
           /\ response.value = SelectSeq(all, InLast)
           /\ \A i, j \in 1..Len(response.value) :
                 response.value[i].id = response.value[j].id => i = j
           /\ \A i \in 1..Len(all) :
                 ~InLast(all[i]) => \A j \in 1..Len(response.value) : response.value[j].id # all[i].id

C13_Witness ==
    /\ Searched
    /\ pc = "done"
    /\ lastCatalog = Bare(SourceTree)
    /\ args.search_term = Str(<<"b">>)
    /\ Ids(response.value) = <<2, 3, 4, 6>>

\* s is a subsequence of t that keeps t's order.
RECURSIVE IsSubsequence(_, _)
IsSubsequence(s, t) ==
    IF s = <<>> THEN TRUE
    ELSE IF t = <<>> THEN FALSE
    ELSE IF Head(s) = Head(t) THEN IsSubsequence(Tail(s), Tail(t))
    ELSE IsSubsequence(s, Tail(t))

\* C14: searchCatalog never fails on, and never returns, an entity with no
\* path or an empty path, and still visits that entity's children; an entity
\* with no child sequence is a leaf; a bare root entity is itself visited,
\* and the entities of an envelope's data are each visited, in order.
C14_SearchToleratesMissingPaths ==
    Searched =>
        LET term == args.search_term.s
            all == TreeEntities(lastCatalog)
            found == Ids(response.value)
            Found(entity) == \E k \in 1..Len(found) : found[k] = entity.id
            InLast(entity) == TermInLastSegment(entity, term)
        IN /\ pc = "done"
           /\ ~response.isError
           /\ \A k \in 1..Len(response.value) : ~HasNoPath(response.value[k])
           /\ \A i \in 1..Len(all) :
                 HasNoPath(all[i]) =>
                    \A c \in 1..Len(all[i].children) :
                        InLast(all[i].children[c]) => Found(all[i].children[c])
           /\ \A k \in 1..Len(found) : \E i \in 1..Len(all) : all[i].id = found[k]
           /\ ~lastCatalog.hasData =>
                 (InLast(lastCatalog.entity) => (found # <<>> /\ found[1] = lastCatalog.entity.id))
           /\ lastCatalog.hasData =>
                 IsSubsequence(Ids(SelectSeq(lastCatalog.data, InLast)), found)

C14_Witness ==
    /\ Searched
    /\ pc = "done"
    /\ lastCatalog = Bare(PathlessTree)
    /\ args.search_term = Str(<<"a">>)
    /\ Ids(response.value) = <<2, 4>>

\* C30: searchCatalog issues exactly one HTTP request per call, the lookup
\* of the root catalog, whatever the size and depth of the tree returned;
\* it searches the entities of that one response only and never fetches the
\* children of an entity.
C30_SearchIsOneRootLookup ==
    op = "searchCatalog" =>
        /\ sent = [submit |-> 0, poll |-> 0, results |-> 0, catalog |-> 1]
        /\ req.kind \in {"none", "catalog"}
        /\ req.kind = "catalog" =>
              req.url = <<"/", "a", "p", "i", "/", "v", "3", "/", "c", "a", "t", "a", "l", "o", "g">>
        /\ lastCatalog # NoCatalog => (pc = "done" /\ req = NoReq)
        /\ (pc = "done" /\ ~response.isError) =>
              \A k \in 1..Len(response.value) :
                  \E i \in 1..Len(TreeEntities(lastCatalog)) :
                      TreeEntities(lastCatalog)[i] = response.value[k]

\* A search through an envelope that holds a folder two levels deep.
C30_Witness ==
    /\ op = "searchCatalog"
    /\ pc = "done"
    /\ lastCatalog.hasData
    /\ Ids(response.value) = <<3, 7>>
    /\ sent = [submit |-> 0, poll |-> 0, results |-> 0, catalog |-> 1]
(***************************************************************************)
(* Properties of concurrent executeQuery calls                             *)
(***************************************************************************)
\* executeQuery run alone against the script of its job: the polling loop
\* entered with attempts = n.
RECURSIVE pollAlone(_, _, _)
pollAlone(sc, n, limit) ==
    IF n >= 30 THEN Failure(timeoutError)
    ELSE LET answer == pollOutcome(sc, n + 1)
         IN IF answer.fails THEN Failure(rethrown(axiosError(answer.failure)))
            ELSE IF answer.body.jobState \in {"FAILED", "CANCELED"}
            THEN Failure(jobFailedError(answer.body))
            ELSE IF answer.body.jobState \in {"RUNNING", "STARTING", "ENQUEUED"}
            THEN pollAlone(sc, n + 1, limit)
            ELSE IF answer.body.jobState # "COMPLETED"
            THEN Failure(unexpectedStateError(answer.body.jobState))
            ELSE IF sc.resultsFail THEN Failure(rethrown(axiosError(NotFound)))
            ELSE Success(buildQueryResult(resultsFor(limit)))

aloneOutcome(sc, limit) ==
    IF sc.submit.fails THEN Failure(rethrown(axiosError(sc.submit.failure)))
    ELSE pollAlone(sc, 0, limit)

\* The status polls of a script that executeQuery counts when it runs alone.
CountedAlone(sc, received) ==
    Cardinality({k \in 1..received :
                   ~pollOutcome(sc, k).fails /\ pollOutcome(sc, k).body.jobState \notin {"FAILED", "CANCELED"}})

C20_CallsKeepToThemselves ==
    \A c \in Calls :
        /\ calls[c].pc \in {"poll", "results"} => calls[c].reqJob = JobOf(c)
        /\ calls[c].pc = "results" => calls[c].reqLimit = Min(CallMaxRows(c), 500)
        /\ calls[c].pc \in {"sleep", "results", "done"} =>
              calls[c].attempts = CountedAlone(script[c], calls[c].received)
        /\ calls[c].pc = "done" =>
              calls[c].outcome = aloneOutcome(script[c], Min(CallMaxRows(c), 500))

\* A step changes the locals of one call at most.
C20_OneCallPerStep ==
    \A c, d \in Calls : c # d => (calls'[c] = calls[c] \/ calls'[d] = calls[d])

\* C20: when executeQuery calls run concurrently, interleaved in any order,
\* each call polls and fetches only the job id its own submission returned,
\* keeps its own attempt counter and returns the outcome it would return
\* alone against the same backend responses for its job; no call changes
\* the state of another call.
C20_ConcurrentCallsIndependent ==
    [](calls # <<>> => C20_CallsKeepToThemselves) /\ [][C20_OneCallPerStep]_vars

C20_Witness ==
    /\ calls # <<>>
    /\ calls[1].pc = "poll" /\ calls[1].attempts = 3
    /\ calls[2].pc = "results" /\ calls[2].attempts = 2 /\ calls[2].reqLimit = 500
(***************************************************************************)
(* Properties of getTableSchema, previewTable and explainQuery             *)
(***************************************************************************)
\* The name and type of every column of a results body, in its order.
ColumnsOf(body) ==
    IF body.hasSchema
    THEN [i \in 1..Len(body.schema) |-> [name |-> body.schema[i].name, type |-> body.schema[i].type]]
    ELSE <<>>

\* The kinds of error executeQuery ends with.
ExecuteQueryErrors == {"timeout", "jobfailed", "badstate", "http", "transport"}

\* The call ended without a result: a request failed, or the job never
\* had its results fetched.
ExecuteQueryFailed == pc = "done" /\ (httpFailure.at # "none" \/ sent.results = 0)

\* C21: getTableSchema(path) for a valid path submits exactly
\* "SELECT * FROM <table reference> LIMIT 0" through one executeQuery call
\* and returns exactly the schema of its result, columns in backend order,
\* whatever the number of rows; an error of executeQuery reaches the caller.
C21_GetTableSchema ==
    /\ (tool = "schema_get" /\ IsTextPath(args.table_path) /\ pc # "idle") =>
          op = "getTableSchema"
    /\ op = "getTableSchema" =>
          /\ IsTextPath(args.table_path)
          /\ sent.submit = 1
          /\ req.kind = "submit" =>
                req.sql = SelectStarFrom \o DottedQuotedForms(SegmentTexts(args.table_path))
                          \o <<" ", "L", "I", "M", "I", "T", " ", "0">>
          /\ (pc = "done" /\ ~ExecuteQueryFailed) =>
                /\ ~response.isError
                /\ response.value = ColumnsOf(lastResults)
          /\ ExecuteQueryFailed =>
                /\ response.isError
                /\ response.error.kind \in ExecuteQueryErrors
                /\ response.text = <<"Error: ">> \o response.error.msg

\* A table with two columns and no rows: the two columns are returned.
C21_Witness ==
    /\ pc = "done"
    /\ op = "getTableSchema"
    /\ args.table_path = Arr(<<Str(<<"a", DQ>>), Str(<<"b">>)>>)
    /\ lastResults.hasRows /\ lastResults.rows = <<>>
    /\ response.value = << [name |-> "c1", type |-> "VARCHAR"], [name |-> "c2", type |-> "INTEGER"] >>

\* C22: previewTable(path) for a valid path submits exactly
\* "SELECT * FROM <table reference> LIMIT 10", fetches the results with
\* limit 10 and returns the whole QueryResult (rowCount, schema, rows), with
\* at most 10 rows.
C22_PreviewTable ==
    /\ (tool = "table_preview" /\ IsTextPath(args.table_path) /\ pc # "idle") =>
          op = "previewTable"
    /\ op = "previewTable" =>
          /\ IsTextPath(args.table_path)
          /\ sent.submit = 1
          /\ req.kind = "submit" =>
                req.sql = SelectStarFrom \o DottedQuotedForms(SegmentTexts(args.table_path))
                          \o <<" ", "L", "I", "M", "I", "T", " ", "1", "0">>
          /\ req.kind = "results" => req.limit = 10
          /\ (pc = "done" /\ ~ExecuteQueryFailed) =>
                /\ ~response.isError
                /\ DOMAIN response.value = {"rowCount", "schema", "rows"}
                /\ response.value.schema = ColumnsOf(lastResults)
                /\ response.value.rows = (IF lastResults.hasRows THEN lastResults.rows ELSE <<>>)
                /\ response.value.rowCount =
                      (IF lastResults.hasRowCount THEN lastResults.rowCount ELSE 0)
                /\ Len(response.value.rows) <= 10

\* The values of one row, in column order, with one space between neighbours.
RECURSIVE SpacedValues(_)
SpacedValues(row) ==
    IF row = <<>> THEN <<>>
    ELSE IF Len(row) = 1 THEN row[1]
    ELSE SpacedValues(SubSeq(row, 1, Len(row) - 1)) \o <<" ">> \o row[Len(row)]

\* The rows, in order, with one newline between neighbours.
RECURSIVE LinesOf(_)
LinesOf(rows) ==
    IF rows = <<>> THEN <<>>
    ELSE IF Len(rows) = 1 THEN SpacedValues(rows[1])
    ELSE LinesOf(SubSeq(rows, 1, Len(rows) - 1)) \o <<"\n">> \o SpacedValues(rows[Len(rows)])

\* C23: for SQL that isSelectQuery accepts, explainQuery submits exactly
\* "EXPLAIN PLAN FOR " followed by the SQL as it was given, and returns the
\* rows of the result in order, each row's values in column order joined by
\* one space, the rows joined by one newline; no rows give the empty text.
C23_ExplainQuery ==
    /\ (tool = "explain_query" /\ IsText(args.sql) /\ isSelectQuery(args.sql.s) /\ pc # "idle") =>
          op = "explainQuery"
    /\ op = "explainQuery" =>
          /\ isSelectQuery(args.sql.s)
          /\ sent.submit = 1
          /\ req.kind = "submit" =>
                req.sql = <<"E", "X", "P", "L", "A", "I", "N", " ", "P", "L", "A", "N", " ",
                            "F", "O", "R", " ">> \o args.sql.s
          /\ (pc = "done" /\ ~ExecuteQueryFailed) =>
                /\ ~response.isError
                /\ response.value = LinesOf(IF lastResults.hasRows THEN lastResults.rows ELSE <<>>)
                /\ (~lastResults.hasRows \/ lastResults.rows = <<>>) => response.value = <<>>

\* A plan of two rows of two values each.
C23_Witness ==
    /\ pc = "done"
    /\ op = "explainQuery"
    /\ args.sql = Str(CommentedSelect)
    /\ Len(lastResults.rows) = 2
    /\ response.value = <<"a", " ", "x", "y", "\n", "b", " ", "x", "y">>
(***************************************************************************)
(* Properties of the row limit of the sql_query tool                       *)
(***************************************************************************)
\* The max_rows of the invocation, 1000 when the argument is absent.
RequestedMaxRows == IF args.max_rows.t = "number" THEN args.max_rows.n ELSE 1000

\* C25: the result fetch of a sql_query invocation asks for
\* min(max_rows, 1000) rows, max_rows taken as 1000 when it is absent.
C25_ToolLimitIsThousand ==
    (tool = "sql_query" /\ req.kind = "results") =>
        req.limit = (IF RequestedMaxRows <= 1000 THEN RequestedMaxRows ELSE 1000)

\* C29: the limit sent on the result fetch is a positive integer no greater
\* than 500, for every max_rows of the sql_query tool (absent, zero,
\* negative, above the cap) and every maxRows passed to executeQuery.
C29_LimitPositiveAtMostCap ==
    req.kind = "results" => (req.limit >= 1 /\ req.limit <= 500)
(***************************************************************************)
(* Properties of startup                                                   *)
(***************************************************************************)
AbsentOrEmptyText(v) == v.t = "undefined" \/ (v.t = "string" /\ v.s = <<>>)

\* The base URL or the bearer credential is missing or empty.
ConfigMissing == AbsentOrEmptyText(env.DREMIO_URL) \/ AbsentOrEmptyText(env.DREMIO_PAT)

\* C26: if the base URL or the bearer credential is missing or empty in the
\* environment, startup stops with a diagnostic and a non-zero exit before
\* the client is constructed; no tool request is then ever served and no
\* HTTP request is ever sent.
C26_MissingConfigStopsStartup ==
    /\ (ConfigMissing /\ proc # "starting") =>
          /\ proc = "exited"
          /\ exitCode # 0 /\ exitCode # -1
          /\ stderr = <<"Error: DREMIO_URL and DREMIO_PAT must be set in .env file">>
    /\ ConfigMissing =>
          /\ ~client.constructed
          /\ pc = "idle" /\ tool = "" /\ ~response.returned
          /\ sent = NoSent /\ req = NoReq
    /\ (~ConfigMissing /\ proc \in {"configured", "serving"}) =>
          /\ client.constructed
          /\ client.url = env.DREMIO_URL.s /\ client.pat = env.DREMIO_PAT.s

\* The URL is set and the credential is empty: the process has exited.
C26_Witness ==
    /\ proc = "exited"
    /\ env.DREMIO_URL = Str(<<"https://dremio">>)
    /\ env.DREMIO_PAT = Str(<<>>)
    /\ exitCode = 1
(***************************************************************************)
(* Properties of the order of the requests of executeQuery                 *)
(***************************************************************************)
\* What holds of the request in flight and of the requests counted so far.
C27_RequestsInPlace ==
    /\ sent.submit <= 1 /\ sent.results <= 1
    /\ sent.poll >= 1 => sent.submit = 1
    /\ req.kind = "poll" =>
          /\ sent.submit = 1 /\ sent.results = 0
          /\ jobId \in JobIds /\ req.job = jobId
    /\ sent.results = 1 =>
          /\ sent.submit = 1 /\ sent.poll >= 1
          /\ lastPoll.jobState = "COMPLETED"
    /\ req.kind = "results" => (jobId \in JobIds /\ req.job = jobId)

\* What holds of every step of a call.
C27_RequestsInOrder ==
    /\ sent'.submit = sent.submit + 1 => (sent = NoSent /\ req'.kind = "submit")
    /\ (pc = "submit" /\ pc' # "submit") =>
          \/ pc' = "sleep" /\ jobId' \in JobIds /\ sent' = sent
          \/ pc' = "done" /\ httpFailure'.at = "submit" /\ sent' = sent
    /\ (pc' = "sleep" /\ pc # "sleep") => (pc \in {"submit", "poll"} /\ req' = NoReq)
    /\ pc = "sleep" => pc' \in {"sleep", "poll"}
    /\ sent'.poll = sent.poll + 1 =>
          (pc = "sleep" /\ req'.kind = "poll" /\ req'.job = jobId /\ jobId' = jobId)
    /\ sent'.results = sent.results + 1 =>
          /\ pc = "poll"
          /\ lastPoll'.jobState = "COMPLETED"
          /\ req'.kind = "results" /\ req'.job = jobId /\ jobId' = jobId
    /\ (jobId # "" /\ pc' # "idle") => jobId' = jobId

\* C27: within one executeQuery call there is exactly one job submission,
\* first; then one or more status polls, each after exactly one wait and
\* each for the job id the submission returned, the first poll made
\* whatever the job's state; then at most one result fetch for the same job
\* id, only when the latest poll reported COMPLETED.
C27_SubmitPollFetchOrder == [](C27_RequestsInPlace) /\ [][C27_RequestsInOrder]_vars

\* The results of job-2 are fetched after one submission and two polls.
C27_Witness ==
    /\ req.kind = "results" /\ req.job = "job-2"
    /\ sent = [submit |-> 1, poll |-> 2, results |-> 1, catalog |-> 0]
    /\ lastPoll.jobState = "COMPLETED"

\* A status response was received and its state, or its lack of one, is
\* none of the six the client knows.
UnexpectedState ==
    /\ lastPoll # NoPoll
    /\ lastPoll.jobState \notin {"STARTING", "ENQUEUED", "RUNNING", "COMPLETED", "FAILED", "CANCELED"}

\* C28: a status poll that reports a state that is none of STARTING,
\* ENQUEUED, RUNNING, COMPLETED, FAILED, CANCELED, or no state, ends
\* executeQuery at once with an error naming that state, with no result
\* fetch and no wait for the attempt ceiling; only STARTING, ENQUEUED and
\* RUNNING keep the loop polling.
C28_UnexpectedStateFailsAtOnce ==
    /\ UnexpectedState =>
          /\ pc = "done"
          /\ req = NoReq
          /\ sent.results = 0
          /\ response.isError
          /\ response.text = <<"Error: ", "Query failed with state: ", lastPoll.jobState>>
    /\ ((pc = "sleep" /\ lastPoll # NoPoll) \/ (pc = "poll" /\ sent.poll >= 2)) =>
          lastPoll.jobState \in {"STARTING", "ENQUEUED", "RUNNING"}
    /\ (lastPoll.jobState \in {"STARTING", "ENQUEUED", "RUNNING"} /\ sent.poll < 30
        /\ httpFailure.at = "none") => pc \in {"sleep", "poll"}

\* The first status response carries no state.
C28_Witness ==
    /\ pc = "done"
    /\ lastPoll.jobState = "undefined"
    /\ sent = [submit |-> 1, poll |-> 1, results |-> 0, catalog |-> 0]
    /\ response.text = <<"Error: ", "Query failed with state: ", "undefined">>
====
